---- MODULE Spec2Model ----
(***************************************************************************)
(* Model of the Azure Communication Services e-mail client.               *)
(*                                                                         *)
(* The gateway src/src/adapters/gateways/acs_email.rs is the program: one  *)
(* ACSClient, one call of send_email / get_email_status /                  *)
(* send_email_with_callback at a time, the remote API and the identity     *)
(* provider being the environment (their answers are drawn with \E).       *)
(* The earlier entry points of the repository (src/src/email.rs,           *)
(* src/src/send_email.rs, src/src/email_status.rs) are modelled next to    *)
(* it as separate operations.                                              *)
(***************************************************************************)
EXTENDS Integers, Sequences, FiniteSets, TLC

VARIABLES
    host,         \* ACSClient.host
    auth_method,  \* ACSClient.auth_method: the credential of the client
    op,           \* the entry point the caller invoked ("none" before the call)
    pc,           \* position of the call inside the entry point
    retries,      \* handle_response_and_retry_if_needed: `retries`
    response,     \* the reqwest::Response currently held (status and headers)
    events,       \* what the call did so far, in order
    result,       \* the value returned to the caller (NoResult while running)
    poller,       \* the task send_email_with_callback spawned: position, message
                  \* id, and the receiving half rx of its oneshot channel
    call,         \* the call in progress with its arguments: an entry point of
                  \* the gateway, a function of utils.rs or a builder
    ret,          \* what that function returned
    calls         \* the calls made on one client at the same time, each with
                  \* its own position, responses and result

vars == <<host, calls, auth_method, op, pc, retries, response, events, result, poller, call, ret>>

None == "None"

----------------------------------------------------------------------------
(* Bounds of the model *)

\* status queries one poller is followed through
MaxPolls == 3

----------------------------------------------------------------------------
(* Program constants *)

ACCEPTED == 202
OK == 200
TOO_MANY_REQUESTS == 429
SERVICE_UNAVAILABLE == 503

\* the max_retries argument acs_send_email passes
max_retries == 3

\* sleep(Duration::from_secs(5)) of the poller
poll_interval_secs == 5

----------------------------------------------------------------------------
(* Strings are sequences of characters *)

Digits == {"0", "1", "3"}

DigitValue(c) == CASE c = "0" -> 0 [] c = "1" -> 1 [] c = "3" -> 3

RECURSIVE DecimalValue(_)
DecimalValue(s) ==
    IF s = <<>> THEN 0
    ELSE 10 * DecimalValue(SubSeq(s, 1, Len(s) - 1)) + DigitValue(s[Len(s)])

AllDigits(s) == \A i \in 1..Len(s) : s[i] \in Digits

Err == [ok |-> FALSE, val |-> 0]
Ok(v) == [ok |-> TRUE, val |-> v]

\* <u64 as FromStr>::from_str: an optional "+", then at least one digit and
\* nothing but digits; no sign "-", no blanks, no empty string
parse_u64(s) ==
    LET digits == IF s # <<>> /\ s[1] = "+" THEN Tail(s) ELSE s
    IN IF digits # <<>> /\ AllDigits(digits) THEN Ok(DecimalValue(digits)) ELSE Err

\* HeaderValue::to_str: fails unless every byte is visible ASCII ("~e" stands
\* for a byte that is not)
to_str(v) == IF \E i \in 1..Len(v) : v[i] = "~e" THEN Err ELSE Ok(v)

----------------------------------------------------------------------------
(* The environment: what the remote API and the identity provider answer *)

Absent == [present |-> FALSE, value |-> <<>>]
Header(v) == [present |-> TRUE, value |-> v]

\* Retry-After header values the remote API may send: seconds ...
RetryAfterSeconds == { <<"0">>, <<"3">>, <<"1", "0">>, <<"+", "1">> }

\* ... and values that are no u64: empty, negative, an HTTP date, a
\* non-ASCII byte, a bare sign
RetryAfterOthers == { <<>>, <<"-", "1">>, <<"G">>, <<"~e">>, <<"+">> }

\* statuses the remote API may answer with, 400 and 500 standing for the
\* statuses the gateway does not name
StatusCodes == {ACCEPTED, OK, 400, TOO_MANY_REQUESTS, 500, SERVICE_UNAVAILABLE}

Throttled ==
    [status : {TOO_MANY_REQUESTS},
     retry_after : {Absent} \cup {Header(v) : v \in RetryAfterSeconds \cup RetryAfterOthers}]
    \cup
    [status : {SERVICE_UNAVAILABLE},
     retry_after : {Absent, Header(<<"3">>), Header(<<"G">>)}]

\* what a response shows before its body is read: status line and headers
HttpResponses ==
    Throttled \cup [status : StatusCodes \ {TOO_MANY_REQUESTS, SERVICE_UNAVAILABLE},
                    retry_after : {Absent}]

\* answers to a status query (the status path reads no Retry-After header)
StatusResponses == [status : StatusCodes, retry_after : {Absent}]

\* answers to the send of send_email_with_callback
CallbackResponses ==
    [status : {ACCEPTED, 400, TOO_MANY_REQUESTS}, retry_after : {Absent}]

\* answers the remote API may give to the send of entry point `entry`
SendResponses(entry) ==
    IF entry = "send_email_with_callback" THEN CallbackResponses ELSE HttpResponses

NoResponse == [status |-> 0, retry_after |-> Absent, seq |-> 0]

\* the k-th response of the call, as the call holds it
Held(r, k) == [status |-> r.status, retry_after |-> r.retry_after, seq |-> k]

\* response bodies: text that is no JSON, or a JSON object with the fields
\* id, status and error, each of which may be missing (None)
NotJson == [json |-> FALSE, id |-> None, status |-> None, error |-> None]
MessageIds == {"abc123"}
StatusNames == {"NotStarted", "Running", "Succeeded", "Failed", "Canceled", "Unknown"}
JsonBodies ==
    [json : {TRUE},
     id : MessageIds \cup {None},
     status : {None, "Running", "Queued"},
     error : {None}]
    \cup
    [json : {TRUE}, id : {None}, status : {None}, error : {"detail"}]
Bodies == {NotJson} \cup JsonBodies

\* bodies of the answers to a status query
StatusBodies ==
    {NotJson}
    \cup [json : {TRUE}, id : MessageIds, status : StatusNames \cup {None, "Queued"},
          error : {None}]
    \cup [json : {TRUE}, id : {None}, status : {None}, error : {"detail"}]

\* access keys of a connection string: one that is base64, one that is not
AccessKeys == { <<"a", "Q", "=", "=">>, <<"a", "!">> }
Base64Chars == {"a", "Q", "="}

AuthMethods ==
    [kind : {"SharedKey"}, key : AccessKeys]
        \cup [kind : {"ServicePrincipal", "ManagedIdentity"}, key : {<<>>}]

----------------------------------------------------------------------------
(* Results *)

NoResult == [ok |-> FALSE, val |-> None, error |-> "running", detail |-> None, from |-> 0]

\* Ok(id) of a send, Ok(status) of a status query
OkId(id) == [ok |-> TRUE, val |-> id, error |-> None, detail |-> None, from |-> 0]

OkStatus(status) == [ok |-> TRUE, val |-> status, error |-> None, detail |-> None, from |-> 0]

\* to_error_response(message, _), built while holding response number `from`
\* (0: not built from a response)
to_error_response(message, from) ==
    [ok |-> FALSE, val |-> None, error |-> message, detail |-> None, from |-> from]

\* Err(error_response) with the ErrorResponse parsed from a body
RemoteError(detail, from) ==
    [ok |-> FALSE, val |-> None, error |-> "ErrorResponse", detail |-> detail, from |-> from]

create_missing_id_error(from) == to_error_response("Missing ID in response", from)

create_missing_status_error(from) == to_error_response("Missing status in response", from)

----------------------------------------------------------------------------
(* What the call did so far *)

Select(kind) == SelectSeq(events, LAMBDA e : e.ev = kind)

\* number of HTTP requests issued
Requests == Len(Select("request"))

\* number of responses received
Received == Len(Select("response"))

\* the sleeps of the call, in order
Waits == [i \in 1..Len(Select("sleep")) |-> Select("sleep")[i].secs]

\* number of token acquisitions
Tokens == Len(Select("token"))

----------------------------------------------------------------------------
(* utils.rs: text is a sequence of characters *)

\* str::starts_with
StartsWith(s, p) == Len(s) >= Len(p) /\ SubSeq(s, 1, Len(p)) = p

\* str::strip_prefix: the rest of the text after the prefix, or None
strip_prefix(s, p) == IF StartsWith(s, p) THEN Ok(SubSeq(s, Len(p) + 1, Len(s))) ELSE Err

\* position of the first character among cs at or after i, Len(s) + 1 without one
RECURSIVE FindFirst(_, _, _)
FindFirst(s, cs, i) ==
    IF i > Len(s) THEN Len(s) + 1
    ELSE IF s[i] \in cs THEN i ELSE FindFirst(s, cs, i + 1)

\* position of the last character among cs at or before i, 0 without one
RECURSIVE FindLast(_, _, _)
FindLast(s, cs, i) ==
    IF i < 1 THEN 0
    ELSE IF s[i] \in cs THEN i ELSE FindLast(s, cs, i - 1)

\* str::split(sep).collect(): n separators give n + 1 fields, empty ones kept
RECURSIVE split(_, _)
split(s, sep) ==
    LET i == FindFirst(s, {sep}, 1)
    IN IF i > Len(s) THEN <<s>>
       ELSE <<SubSeq(s, 1, i - 1)>> \o split(SubSeq(s, i + 1, Len(s)), sep)

\* the letters hosts are written with here, and their lower case
to_ascii_lowercase(c) == CASE c = "H" -> "h" [] OTHER -> c

lowercase(s) == [i \in 1..Len(s) |-> to_ascii_lowercase(s[i])]

HttpsScheme == <<"h", "t", "t", "p", "s", ":", "/", "/">>

\* str::replace(from, ""): the text without any occurrence of `from`
RECURSIVE remove(_, _)
remove(s, from) ==
    IF Len(s) < Len(from) THEN s
    ELSE IF StartsWith(s, from) THEN remove(SubSeq(s, Len(from) + 1, Len(s)), from)
    ELSE <<s[1]>> \o remove(Tail(s), from)

\* bytes a header value must not contain: control characters other than tab
ControlChars == {"\n", "\r"}

\* <HeaderValue as FromStr>::from_str
HeaderValue_from_str(text) ==
    IF \E i \in 1..Len(text) : text[i] \in ControlChars THEN Err ELSE Ok(text)

\* Option<&str> of Url::query
NoQuery == [present |-> FALSE, value |-> <<>>]
Query(v) == [present |-> TRUE, value |-> v]

InvalidUrl ==
    [ok |-> FALSE, host |-> <<>>, port |-> <<>>, path |-> <<>>, query |-> NoQuery]

\* a host read with its port left on
url_host_with_port(hostport) == lowercase(hostport)

\* the host of an authority without its userinfo: what stands before the last
\* ":", in lower case
url_host(hostport) ==
    LET colon == FindLast(hostport, {":"}, Len(hostport))
    IN lowercase(IF colon = 0 THEN hostport ELSE SubSeq(hostport, 1, colon - 1))

\* the port of an authority without its userinfo: what stands after the last ":"
url_port(hostport) ==
    LET colon == FindLast(hostport, {":"}, Len(hostport))
    IN IF colon = 0 THEN <<>> ELSE SubSeq(hostport, colon + 1, Len(hostport))

\* F of v, v being evaluated once
With(v, F(_)) == CHOOSE r \in { F(x) : x \in {v} } : TRUE

\* characters Url::parse removes from its input: tab and line breaks
StrippedChars == {"\t", "\n", "\r"}

\* characters a host must not contain
ForbiddenHostChars == {" "}

\* Url::parse for the schemes http and https (no fragment, no IPv6 host):
\* scheme "://" authority path "?" query, tabs and line breaks being removed
\* first. The authority ends at the first "/" or "?", its userinfo at the last
\* "@", its port starts at the last ":"; an empty path is "/". Err without
\* such a scheme, with an empty host, with a forbidden character in the host
\* or with a port that is no number.
Url_parse(input) ==
    With(SelectSeq(input, LAMBDA c : c \notin StrippedChars), LAMBDA text :
    With(FindFirst(text, {":"}, 1), LAMBDA colon :
    With(SubSeq(text, colon + 3, Len(text)), LAMBDA rest :
    With(FindFirst(rest, {"/", "?"}, 1), LAMBDA auth_end :
    With(SubSeq(rest, 1, auth_end - 1), LAMBDA authority :
    With(SubSeq(authority, FindLast(authority, {"@"}, Len(authority)) + 1, Len(authority)),
         LAMBDA hostport :
    With(SubSeq(rest, auth_end, Len(rest)), LAMBDA after :
    With(FindFirst(after, {"?"}, 1), LAMBDA mark :
    With(SubSeq(after, 1, mark - 1), LAMBDA path :
       IF lowercase(SubSeq(text, 1, colon - 1))
             \notin { <<"h", "t", "t", "p">>, <<"h", "t", "t", "p", "s">> } THEN InvalidUrl
       ELSE IF SubSeq(text, colon + 1, colon + 2) # <<"/", "/">> THEN InvalidUrl
       ELSE IF url_host(hostport) = <<>> THEN InvalidUrl
       ELSE IF \E i \in 1..Len(hostport) : hostport[i] \in ForbiddenHostChars THEN InvalidUrl
       ELSE IF ~AllDigits(url_port(hostport)) THEN InvalidUrl
       ELSE [ok |-> TRUE,
             host |-> url_host(hostport),
             port |-> url_port(hostport),
             path |-> IF path = <<>> THEN <<"/">> ELSE path,
             query |-> IF mark > Len(after) THEN NoQuery
                       ELSE Query(SubSeq(after, mark + 1, Len(after)))])))))))))

----------------------------------------------------------------------------
(* Pure parts of the gateway *)

\* general_purpose::STANDARD.decode(secret) succeeds
base64_decodes(secret) ==
    /\ Len(secret) % 4 = 0
    /\ \A i \in 1..Len(secret) : secret[i] \in Base64Chars

\* compute_signature: Err when the secret is no base64
compute_signature_ok(secret) == base64_decodes(secret)

\* a SentEmailResponse whose status field is required
parse_SentEmailResponse_status_required(body) ==
    IF ~body.json \/ body.status \notin StatusNames THEN [ok |-> FALSE, val |-> None]
    ELSE [ok |-> TRUE, val |-> body]

\* parse_response::<SentEmailResponse>: the body must be JSON and its status,
\* when present, one of the variants of EmailSendStatusType
parse_SentEmailResponse(body) ==
    IF ~body.json THEN [ok |-> FALSE, val |-> None]
    ELSE IF body.status \notin StatusNames \cup {None} THEN [ok |-> FALSE, val |-> None]
    ELSE [ok |-> TRUE, val |-> body]

\* parse_response::<ErrorResponse>: the body must be JSON; unknown fields are
\* ignored and a missing error field is None
parse_ErrorResponse(body) ==
    IF ~body.json THEN [ok |-> FALSE, val |-> None]
    ELSE [ok |-> TRUE, val |-> body.error]

\* parse_error_response: always an Err, the parsed ErrorResponse or the
\* failure to parse it
parse_error_response(body, from) ==
    LET parsed == parse_ErrorResponse(body)
    IN IF parsed.ok THEN RemoteError(parsed.val, from)
       ELSE to_error_response("Failed to parse response", from)

\* the ACCEPTED arm: parse_response::<SentEmailResponse>(response).await?
\*   .id.ok_or_else(create_missing_id_error)
accepted_result(body, from) ==
    LET parsed == parse_SentEmailResponse(body)
    IN IF ~parsed.ok THEN to_error_response("Failed to parse response", from)
       ELSE IF parsed.val.id = None THEN create_missing_id_error(from)
       ELSE OkId(parsed.val.id)

\* a backoff that starts at 2 seconds instead of 1
backoff_secs_from_two(n) == 2 ^ (n + 1)

\* let backoff_secs = 2u64.pow(retries)
backoff_secs(n) == 2 ^ n

\* the bound tested with > instead of >=
retries_exhausted_late(n) == n > max_retries

\* retries >= max_retries
retries_exhausted(n) == n >= max_retries

\* the Retry-After header of a response read as seconds:
\* headers().get(RETRY_AFTER), to_str(), parse::<u64>()
retry_after_secs(resp) ==
    LET str == to_str(resp.retry_after.value)
    IN IF ~str.ok THEN Err ELSE parse_u64(str.val)

\* a Retry-After header that is ignored
retry_wait_ignoring_header(resp, n) == Ok(backoff_secs(n))

\* a Retry-After header that falls back to the backoff when it does not parse
retry_wait_falling_back(resp, n) ==
    IF resp.retry_after.present /\ retry_after_secs(resp).ok
    THEN retry_after_secs(resp) ELSE Ok(backoff_secs(n))

\* how long the TOO_MANY_REQUESTS | SERVICE_UNAVAILABLE arm sleeps, or Err
\* when it returns instead of sleeping
retry_wait(resp, n) ==
    IF resp.retry_after.present THEN retry_after_secs(resp) ELSE Ok(backoff_secs(n))

\* a match that takes every 2xx status for an acceptance
status_arm_accepting_2xx(status) ==
    CASE status \in 200..299 -> "accepted"
      [] status \in {TOO_MANY_REQUESTS, SERVICE_UNAVAILABLE} -> "retry"
      [] OTHER -> "other"

\* a match that also retries on 500
status_arm_retrying_500(status) ==
    CASE status = ACCEPTED -> "accepted"
      [] status \in {TOO_MANY_REQUESTS, SERVICE_UNAVAILABLE, 500} -> "retry"
      [] OTHER -> "other"

\* the arm of `match response.status()` taken
status_arm(status) ==
    CASE status = ACCEPTED -> "accepted"
      [] status \in {TOO_MANY_REQUESTS, SERVICE_UNAVAILABLE} -> "retry"
      [] OTHER -> "other"

\* what one pass of the loop of handle_response_and_retry_if_needed does with
\* the response it holds: return a result, or sleep `secs` and retry
Return(r) == [retry |-> FALSE, secs |-> 0, result |-> r]
Retry(secs) == [retry |-> TRUE, secs |-> secs, result |-> NoResult]

handle_response_and_retry_if_needed(resp, n, body) ==
    CASE status_arm(resp.status) = "accepted" ->
            Return(accepted_result(body, resp.seq))
      [] status_arm(resp.status) = "retry" ->
            IF retries_exhausted(n) THEN Return(parse_error_response(body, resp.seq))
            ELSE IF retry_wait(resp, n).ok THEN Retry(retry_wait(resp, n).val)
            ELSE Return(parse_error_response(body, resp.seq))
      [] OTHER ->
            Return(parse_error_response(body, resp.seq))

\* a create_headers that goes on without the token it asked for
create_headers_ok_ignoring_token(auth, token_ok) ==
    IF auth.kind = "SharedKey" THEN compute_signature_ok(auth.key) ELSE TRUE

\* create_headers: the shared-key headers need the signature; the bearer
\* header needs a token, acquired anew (token_ok: the identity provider's answer)
create_headers_ok(auth, token_ok) ==
    IF auth.kind = "SharedKey" THEN compute_signature_ok(auth.key) ELSE token_ok

\* request_id.parse().unwrap(): get_request_header inserts the request id
\* before it signs, create_headers inserts it once it has the token
create_headers_panics(auth, request_id, token_ok) ==
    IF auth.kind = "SharedKey" THEN ~HeaderValue_from_str(request_id).ok
    ELSE token_ok /\ ~HeaderValue_from_str(request_id).ok

\* get_access_token as acquisition number n of the call
create_headers_events(auth, n, token_ok) ==
    IF auth.kind = "SharedKey" THEN <<>>
    ELSE <<[ev |-> "token", n |-> n, ok |-> token_ok]>>

create_headers_error(auth) ==
    IF auth.kind = "SharedKey" THEN "Header creation failed"
    ELSE "Failed to acquire access token"

\* what the identity provider may answer; a token it hands out is taken to be
\* a text that a header can carry
TokenAnswers(auth) == IF auth.kind = "SharedKey" THEN {TRUE} ELSE BOOLEAN

IntChar(n) == CASE n = 0 -> "0" [] n = 1 -> "1" [] n = 2 -> "2" [] n = 3 -> "3" [] n = 4 -> "4"

\* the arguments of send_request
Request(method, url, request_id, body) ==
    [method |-> method, url |-> url, request_id |-> request_id, body |-> body]

api_version == <<"?", "a", "p", "i", "-", "v", "e", "r", "s", "i", "o", "n", "=", "1">>

\* format!("https://{}/emails:send?api-version={}", host.replace("https://", ""), ..)
send_url(host_name) ==
    HttpsScheme \o remove(host_name, HttpsScheme)
        \o <<"/", "e", "m", "a", "i", "l", "s", ":", "s", "e", "n", "d">> \o api_version

\* format!("https://{}/emails/operations/{}?api-version={}", ..)
status_url(host_name, request_id) ==
    HttpsScheme \o remove(host_name, HttpsScheme)
        \o <<"/", "e", "m", "a", "i", "l", "s", "/", "o", "p", "e", "r", "a", "t", "i", "o", "n", "s", "/">>
        \o request_id \o api_version

\* parse_url
parse_url(url) == Url_parse(url)

\* a client that keeps the first token it acquired
Bearer_kept(auth, n) == IF auth.kind = "SharedKey" THEN <<>> ELSE <<"token", 1>>

\* the bearer token of the request after acquisition number n
Bearer(auth, n) == IF auth.kind = "SharedKey" THEN <<>> ELSE <<"token", n>>

\* a request whose id is made anew for each attempt
RequestEvent_with_new_id(auth, req, k, tokens) ==
    [ev |-> "request", n |-> k, method |-> req.method, url |-> req.url,
     request_id |-> req.request_id \o <<"-", IntChar(k)>>, body |-> req.body,
     bearer |-> Bearer(auth, tokens)]

\* the HTTP request number k of the call as it goes out
RequestEvent(auth, req, k, tokens) ==
    [ev |-> "request", n |-> k, method |-> req.method, url |-> req.url,
     request_id |-> req.request_id, body |-> req.body, bearer |-> Bearer(auth, tokens)]

\* send_request, as request number k of the call after `tokens` token
\* acquisitions, the remote API answering from `answers`: every way it can
\* end. Err before any request (URL, headers), a panic while the headers are
\* made, Err after the request (transport), or the response.
send_request(auth, req, k, tokens, answers) ==
    IF ~parse_url(req.url).ok
    THEN { [evs |-> <<>>, ok |-> FALSE, error |-> "Invalid URL", response |-> NoResponse] }
    ELSE
    { [evs |-> create_headers_events(auth, tokens + 1, t),
       ok |-> FALSE, error |-> "panic", response |-> NoResponse] :
         t \in {x \in TokenAnswers(auth) : create_headers_panics(auth, req.request_id, x)} }
    \cup
    { [evs |-> create_headers_events(auth, tokens + 1, t),
       ok |-> FALSE, error |-> create_headers_error(auth), response |-> NoResponse] :
         t \in {x \in TokenAnswers(auth) :
                   /\ ~create_headers_panics(auth, req.request_id, x)
                   /\ ~create_headers_ok(auth, x)} }
    \cup
    { [evs |-> create_headers_events(auth, tokens + 1, t)
                  \o <<RequestEvent(auth, req, k, tokens + 1), [ev |-> "transport_error"]>>,
       ok |-> FALSE, error |-> "Request failed", response |-> NoResponse] :
         t \in {x \in TokenAnswers(auth) :
                   /\ ~create_headers_panics(auth, req.request_id, x)
                   /\ create_headers_ok(auth, x)} }
    \cup
    { [evs |-> create_headers_events(auth, tokens + 1, o[1])
                  \o <<RequestEvent(auth, req, k, tokens + 1),
                       [ev |-> "response", status |-> o[2].status,
                        retry_after |-> o[2].retry_after]>>,
       ok |-> TRUE, error |-> None, response |-> Held(o[2], k)] :
         o \in {x \in TokenAnswers(auth) :
                   /\ ~create_headers_panics(auth, req.request_id, x)
                   /\ create_headers_ok(auth, x)} \X answers }

\* the value a call ends with when send_request did not give a response
Panicked == [ok |-> FALSE, val |-> None, error |-> "panic", detail |-> None, from |-> 0]

request_error(error) == IF error = "panic" THEN Panicked ELSE to_error_response(error, 0)

\* acs_get_email_status, once the response is there: a 200 gives the status
\* of its body or the missing-status error, any other status an Err
status_result(resp, body) ==
    IF resp.status = OK
    THEN IF ~parse_SentEmailResponse(body).ok
         THEN to_error_response("Failed to parse response", resp.seq)
         ELSE IF parse_SentEmailResponse(body).val.status = None
         THEN create_missing_status_error(resp.seq)
         ELSE OkStatus(parse_SentEmailResponse(body).val.status)
    ELSE parse_error_response(body, resp.seq)

\* the text of a message id
chars(id) ==
    CASE id = "abc123" -> <<"a", "b", "c", "1", "2", "3">>
      [] id = "abc\n" -> <<"a", "b", "c", "\n">>

\* acs_get_email_status for message id request_id, as request number k of the
\* call after `tokens` token acquisitions, the remote API answering from
\* `answers` with a body from `bodies`: every way it can end, with what it did
\* and the result it returns
get_email_status_outcomes(host_name, auth, request_id, k, tokens, answers, bodies) ==
    LET req == Request("GET", status_url(host_name, chars(request_id)), chars(request_id), None)
    IN { [evs |-> o.evs, result |-> request_error(o.error), response |-> NoResponse] :
            o \in {x \in send_request(auth, req, k, tokens, answers) : ~x.ok} }
       \cup
       { [evs |-> ob[1].evs \o <<[ev |-> "body", body |-> ob[2]]>>,
          result |-> status_result(ob[1].response, ob[2]),
          response |-> ob[1].response] :
            ob \in {x \in send_request(auth, req, k, tokens, answers) : x.ok} \X bodies }

acs_get_email_status(host_name, auth, request_id, k, tokens) ==
    get_email_status_outcomes(host_name, auth, request_id, k, tokens,
                              StatusResponses, StatusBodies)

\* the position of a call that ended with result r
ended(r) == IF r = Panicked THEN "panicked" ELSE "done"

----------------------------------------------------------------------------
(* ACSClient::send_email *)

NoPoller == [pc |-> "none", message_id |-> None, rx |-> "none"]

\* no function of utils.rs invoked on its own
NoCall == [fn |-> "none"]
NoReturn == [ok |-> FALSE, error |-> "not returned"]

\* hosts a client may be given: one Url::parse accepts, written with its
\* scheme, and one with a blank in it
Hosts == { HttpsScheme \o <<"h", ".", "i", "o">>, <<"h", " ", "i", "o">> }

\* the SentEmail handed to a send
Emails == {"email"}

\* message ids a caller may ask the status of: one the remote API handed
\* out, and one with a line break in it
CallerMessageIds == {"abc123", "abc\n"}

\* format!("{}", Uuid::new_v4()) in the n-th call: 122 random bits, taken to
\* differ from the UUID of every other call
Uuid_new_v4(n) == <<"u", "u", "i", "d", "-", IntChar(n)>>

\* the POST of acs_send_email
SendEmailRequest(host_name, request_id, email) ==
    Request("POST", send_url(host_name), request_id, email)

NoCalls == <<>>

Init ==
    /\ host \in Hosts
    /\ calls = NoCalls
    /\ auth_method \in AuthMethods
    /\ op = "none"
    /\ pc = "idle"
    /\ retries = 0
    /\ response = NoResponse
    /\ events = <<>>
    /\ result = NoResult
    /\ poller = NoPoller
    /\ call = NoCall
    /\ ret = NoReturn

\* the caller invokes send_email: acs_send_email starts
SendEmail ==
    /\ op = "none"
    /\ op' = "send_email"
    /\ pc' = "send_request"
    /\ \E email \in Emails :
          call' = [fn |-> "send_email", request_id |-> Uuid_new_v4(1), email |-> email]
    /\ UNCHANGED <<host, calls, ret, auth_method, retries, response, events, result, poller>>

\* a send_request whose transport failure is slept on and retried like a 429
SendRequest_retrying_transport ==
    /\ op \in {"send_email", "send_email_with_callback"}
    /\ pc = "send_request"
    /\ \E o \in send_request(auth_method,
                             SendEmailRequest(host, call.request_id, call.email),
                             Requests + 1, Tokens, SendResponses(op)) :
          /\ IF o.ok
             THEN /\ events' = events \o o.evs
                  /\ response' = o.response
                  /\ pc' = "handle_response"
                  /\ UNCHANGED <<result, retries>>
             ELSE IF o.error = "Request failed" /\ ~retries_exhausted(retries)
             THEN /\ events' = events \o o.evs
                                \o <<[ev |-> "sleep", secs |-> backoff_secs(retries)]>>
                  /\ retries' = retries + 1
                  /\ UNCHANGED <<pc, result, response>>
             ELSE /\ events' = events \o o.evs
                  /\ result' = request_error(o.error)
                  /\ pc' = ended(request_error(o.error))
                  /\ UNCHANGED <<response, retries>>
    /\ UNCHANGED <<host, calls, call, ret, auth_method, op, poller>>

\* send_request(...).await? of acs_send_email (the first attempt) and of the
\* retry arm: an Err ends the call, a response goes to the loop
SendRequest ==
    /\ op \in {"send_email", "send_email_with_callback"}
    /\ pc = "send_request"
    /\ \E o \in send_request(auth_method,
                             SendEmailRequest(host, call.request_id, call.email),
                             Requests + 1, Tokens, SendResponses(op)) :
          /\ events' = events \o o.evs
          /\ IF o.ok
             THEN /\ response' = o.response
                  /\ pc' = "handle_response"
                  /\ UNCHANGED result
             ELSE /\ result' = request_error(o.error)
                  /\ pc' = ended(request_error(o.error))
                  /\ UNCHANGED response
    /\ UNCHANGED <<host, calls, call, ret, auth_method, op, retries, poller>>

\* a poller spawned whatever the send returned
spawn_poller_unconditionally(entry, sent) ==
    IF entry = "send_email_with_callback"
    THEN [pc |-> "sleep", message_id |-> sent.val, rx |-> "local"]
    ELSE NoPoller

\* a poller whose loop queries before it sleeps
spawn_poller_querying_first(entry, sent) ==
    IF entry = "send_email_with_callback" /\ sent.ok
    THEN [pc |-> "query", message_id |-> sent.val, rx |-> "local"]
    ELSE NoPoller

\* send_email_with_callback after acs_send_email(..).await?: an Err has
\* returned already; on Ok(id) the channel is made and the poller is spawned
\* with a clone of the id and with tx, rx still being a local of the call.
\* send_email spawns nothing.
spawn_poller(entry, sent) ==
    IF entry = "send_email_with_callback" /\ sent.ok
    THEN [pc |-> "sleep", message_id |-> sent.val, rx |-> "local"]
    ELSE NoPoller

\* one pass of the loop of handle_response_and_retry_if_needed: the body is
\* read only when the pass returns
HandleResponse ==
    /\ op \in {"send_email", "send_email_with_callback"}
    /\ pc = "handle_response"
    /\ \E body \in Bodies :
          LET step == handle_response_and_retry_if_needed(response, retries, body)
          IN IF step.retry
             THEN /\ events' = Append(events, [ev |-> "sleep", secs |-> step.secs])
                  /\ retries' = retries + 1
                  /\ pc' = "send_request"
                  /\ UNCHANGED <<result, poller>>
             ELSE /\ events' = Append(events, [ev |-> "body", body |-> body])
                  /\ result' = step.result
                  /\ pc' = IF spawn_poller(op, step.result) = NoPoller
                           THEN "done" ELSE "spawned"
                  /\ poller' = spawn_poller(op, step.result)
                  /\ UNCHANGED retries
    /\ UNCHANGED <<host, calls, call, ret, auth_method, op, response>>

----------------------------------------------------------------------------
(* send_email of the gateway as src/src/acs_email.rs has it: one request, no *)
(* retry                                                                    *)

\* format!("https://{}/emails:send?api-version={}", host, API_VERSION)
older_send_url(host_name) ==
    HttpsScheme \o host_name
        \o <<"/", "e", "m", "a", "i", "l", "s", ":", "s", "e", "n", "d">> \o api_version

\* handle_response: 202 gives the id of the body or the missing-id error, any
\* other status an Err
handle_response(resp, body) ==
    IF resp.status = ACCEPTED THEN accepted_result(body, resp.seq)
    ELSE parse_error_response(body, resp.seq)

\* send_email of src/src/acs_email.rs: acs_send_email makes one send_request
\* and hands the response to handle_response
OlderSendEmail ==
    /\ op = "none"
    /\ op' = "acs_email::send_email"
    /\ \E email \in Emails :
          /\ call' = [fn |-> "acs_email::send_email", request_id |-> Uuid_new_v4(1),
                      email |-> email]
          /\ \E o \in send_request(auth_method,
                                   Request("POST", older_send_url(host), Uuid_new_v4(1), email),
                                   1, 0, HttpResponses) :
                IF o.ok
                THEN \E body \in Bodies :
                        /\ events' = events \o o.evs \o <<[ev |-> "body", body |-> body]>>
                        /\ response' = o.response
                        /\ result' = handle_response(o.response, body)
                        /\ pc' = "done"
                ELSE /\ events' = events \o o.evs
                     /\ result' = request_error(o.error)
                     /\ pc' = ended(request_error(o.error))
                     /\ UNCHANGED response
    /\ UNCHANGED <<host, calls, ret, auth_method, retries, poller>>

----------------------------------------------------------------------------
(* ACSClient::get_email_status *)

\* the caller invokes get_email_status
GetEmailStatus ==
    /\ op = "none"
    /\ op' = "get_email_status"
    /\ pc' = "status_request"
    /\ \E message_id \in CallerMessageIds :
          call' = [fn |-> "get_email_status", message_id |-> message_id]
    /\ UNCHANGED <<host, calls, ret, auth_method, retries, response, events, result, poller>>

\* acs_get_email_status: one send_request, then the answer is turned into
\* the result
StatusRequest ==
    /\ op = "get_email_status"
    /\ pc = "status_request"
    /\ \E o \in acs_get_email_status(host, auth_method, call.message_id,
                                      Requests + 1, Tokens) :
          /\ events' = events \o o.evs
          /\ response' = o.response
          /\ result' = o.result
          /\ pc' = ended(o.result)
    /\ UNCHANGED <<host, calls, call, ret, auth_method, op, retries, poller>>

----------------------------------------------------------------------------
(* ACSClient::send_email_with_callback and the poller it spawns *)

\* the caller invokes send_email_with_callback: acs_send_email starts
SendEmailWithCallback ==
    /\ op = "none"
    /\ op' = "send_email_with_callback"
    /\ pc' = "send_request"
    /\ \E email \in Emails :
          call' = [fn |-> "send_email_with_callback", request_id |-> Uuid_new_v4(1),
                   email |-> email]
    /\ UNCHANGED <<host, calls, ret, auth_method, retries, response, events, result, poller>>

\* a match that leaves Unknown out
is_terminal_without_unknown(status) == status \in {"Canceled", "Failed", "Succeeded"}

\* matches!(status, Unknown | Canceled | Failed | Succeeded)
is_terminal(status) == status \in {"Unknown", "Canceled", "Failed", "Succeeded"}

\* the Option<ErrorDetail> handed to call_back: None, or Some(ErrorDetail)
\* whose message is made of the Err the query returned
NoDetail == [present |-> FALSE, cause |-> NoResult]
ErrorDetail(cause) == [present |-> TRUE, cause |-> cause]

\* a poller that goes on with its loop after a query failed
poll_step_continuing_on_error(message_id, resp_status) ==
    IF resp_status.ok
    THEN [update |-> [ev |-> "update", message_id |-> message_id,
                      status |-> resp_status.val, error |-> NoDetail],
          stop |-> is_terminal(resp_status.val)]
    ELSE [update |-> [ev |-> "update", message_id |-> message_id,
                      status |-> "Failed", error |-> ErrorDetail(resp_status)],
          stop |-> FALSE]

\* the poller after get_email_status returned resp_status: the call_back it
\* makes and whether it sends on tx and breaks
poll_step(message_id, resp_status) ==
    IF resp_status.ok
    THEN [update |-> [ev |-> "update", message_id |-> message_id,
                      status |-> resp_status.val, error |-> NoDetail],
          stop |-> is_terminal(resp_status.val)]
    ELSE [update |-> [ev |-> "update", message_id |-> message_id,
                      status |-> "Failed", error |-> ErrorDetail(resp_status)],
          stop |-> TRUE]

\* status queries the poller made
Polls == Len(Select("status_result"))

\* a return that waits for the poller to end
ReturnReceiver_after_poller ==
    /\ op = "send_email_with_callback"
    /\ pc = "spawned"
    /\ poller.pc = "stopped"
    /\ pc' = "done"
    /\ poller' = [poller EXCEPT !.rx = "held"]
    /\ UNCHANGED <<host, calls, call, ret, auth_method, op, retries, response, events, result>>

\* Ok((result, rx)): the call returns the id and the receiver to its caller,
\* whatever the spawned task has done by then
ReturnReceiver ==
    /\ op = "send_email_with_callback"
    /\ pc = "spawned"
    /\ pc' = "done"
    /\ poller' = [poller EXCEPT !.rx = "held"]
    /\ UNCHANGED <<host, calls, call, ret, auth_method, op, retries, response, events, result>>

\* the caller awaits the receiver it was given
AwaitReceiver ==
    /\ poller.rx = "held"
    /\ poller' = [poller EXCEPT !.rx = "awaiting"]
    /\ UNCHANGED <<host, calls, call, ret, auth_method, op, pc, retries, response, events, result>>

\* the caller drops the receiver without awaiting it
DropReceiver ==
    /\ poller.rx = "held"
    /\ poller' = [poller EXCEPT !.rx = "dropped"]
    /\ UNCHANGED <<host, calls, call, ret, auth_method, op, pc, retries, response, events, result>>

\* rx.await completes once tx.send(()) has happened
ReceiveSignal ==
    /\ poller.rx = "awaiting"
    /\ poller.pc = "stopped"
    /\ poller' = [poller EXCEPT !.rx = "received"]
    /\ UNCHANGED <<host, calls, call, ret, auth_method, op, pc, retries, response, events, result>>

\* sleep(Duration::from_secs(5)).await at the top of the loop
PollSleep ==
    /\ poller.pc = "sleep"
    /\ Polls < MaxPolls
    /\ events' = Append(events, [ev |-> "poll_sleep", secs |-> poll_interval_secs])
    /\ poller' = [poller EXCEPT !.pc = "query"]
    /\ UNCHANGED <<host, calls, call, ret, auth_method, op, pc, retries, response, result>>

\* let _ = tx.send(()): the send fails when the receiver was dropped, and
\* the failure is discarded
tx_send(rx) == [ev |-> "signal", delivered |-> rx # "dropped"]

\* a pass that sends on tx before it calls call_back
PollQuery_signalling_first ==
    /\ poller.pc = "query"
    /\ \E o \in acs_get_email_status(host, auth_method, poller.message_id,
                                      Requests + 1, Tokens) :
          LET step == poll_step(poller.message_id, o.result)
          IN /\ events' = events \o o.evs
                            \o <<[ev |-> "status_result", result |-> o.result]>>
                            \o (IF step.stop THEN <<tx_send(poller.rx)>> ELSE <<>>)
                            \o <<step.update>>
             /\ poller' = [poller EXCEPT !.pc = IF step.stop THEN "stopped" ELSE "sleep"]
    /\ UNCHANGED <<host, calls, call, ret, auth_method, op, pc, retries, response, result>>

\* self.get_email_status(&message_id).await and the rest of the pass: the
\* call_back, and on a terminal status or an Err tx.send(()) and break
PollQuery ==
    /\ poller.pc = "query"
    /\ \E o \in acs_get_email_status(host, auth_method, poller.message_id,
                                      Requests + 1, Tokens) :
          LET step == poll_step(poller.message_id, o.result)
          IN /\ events' = events \o o.evs
                            \o <<[ev |-> "status_result", result |-> o.result], step.update>>
                            \o (IF step.stop THEN <<tx_send(poller.rx)>> ELSE <<>>)
             /\ poller' = [poller EXCEPT !.pc = IF step.stop THEN "stopped" ELSE "sleep"]
    /\ UNCHANGED <<host, calls, call, ret, auth_method, op, pc, retries, response, result>>

Next ==
    \/ SendEmail \/ SendRequest \/ HandleResponse
    \/ OlderSendEmail
    \/ GetEmailStatus \/ StatusRequest
    \/ SendEmailWithCallback \/ PollSleep \/ PollQuery
    \/ ReturnReceiver \/ AwaitReceiver \/ DropReceiver \/ ReceiveSignal

Spec == Init /\ [][Next]_vars

----------------------------------------------------------------------------
(* The poller followed forever: its loop without the log of what it did,   *)
(* scheduled fairly                                                        *)

\* a poller that polls once and then sleeps for good
PollerSleep_once ==
    /\ poller.pc = "sleep"
    /\ ret = NoReturn
    /\ poller' = [poller EXCEPT !.pc = "query"]
    /\ UNCHANGED <<host, calls, call, ret, auth_method, op, pc, retries, response, events, result>>

\* sleep(Duration::from_secs(5)).await at the top of the loop: nothing counts
\* the passes and nothing ends the loop here
PollerSleep ==
    /\ poller.pc = "sleep"
    /\ poller' = [poller EXCEPT !.pc = "query"]
    /\ UNCHANGED <<host, calls, call, ret, auth_method, op, pc, retries, response, events, result>>

\* self.get_email_status(&message_id).await and the rest of the pass; ret is
\* what the query returned
PollerQuery ==
    /\ poller.pc = "query"
    /\ \E o \in acs_get_email_status(host, auth_method, poller.message_id,
                                      Requests + 1, Tokens) :
          /\ ret' = o.result
          /\ poller' = [poller EXCEPT !.pc =
                           IF poll_step(poller.message_id, o.result).stop
                           THEN "stopped" ELSE "sleep"]
    /\ UNCHANGED <<host, calls, call, auth_method, op, pc, retries, response, events, result>>

NextPoller ==
    \/ SendEmailWithCallback \/ SendRequest \/ HandleResponse
    \/ ReturnReceiver \/ AwaitReceiver \/ DropReceiver \/ ReceiveSignal
    \/ PollerSleep \/ PollerQuery

\* the runtime runs the spawned task: a sleep that is over is followed by the
\* query, and a query that was sent returns
SpecPoller ==
    Init /\ [][NextPoller]_vars /\ WF_vars(PollerSleep) /\ WF_vars(PollerQuery)

----------------------------------------------------------------------------
(* The earlier entry points: email.rs, email_status.rs, send_email.rs.     *)
(* Each takes a host and an access key (shared key only) and makes one     *)
(* request.                                                                *)

\* the x-ms-request-id header of an answer
RequestIdHeaders ==
    { [present |-> FALSE, value |-> ""], [present |-> TRUE, value |-> "abc123"] }

\* compute_signature of main.rs, which email_status.rs and send_email.rs
\* call: base64::decode(secret).expect(..) panics when the secret is no base64
compute_signature_panics(secret) == ~base64_decodes(secret)

\* email.rs get_email_status, once the response is there
email_status_result(resp, body) ==
    IF resp.status = OK
    THEN IF ~parse_SentEmailResponse(body).ok
         THEN to_error_response("Failed to parse response", resp.seq)
         ELSE IF parse_SentEmailResponse(body).val.status = None
         THEN to_error_response("Missing status in response", resp.seq)
         ELSE OkStatus(parse_SentEmailResponse(body).val.status)
    ELSE IF parse_ErrorResponse(body).ok
         THEN RemoteError(parse_ErrorResponse(body).val, resp.seq)
         ELSE to_error_response("Failed to parse error response", resp.seq)

\* resp.json::<EmailStatus>(): message id and status are both required
parse_EmailStatus(body) ==
    IF body.json /\ body.id # None /\ body.status # None
    THEN [ok |-> TRUE, val |-> body] ELSE [ok |-> FALSE, val |-> None]

\* email_status.rs get_email_status, once the response is there: a 2xx is
\* unwrapped into the EmailStatus of its body, any other status is logged
\* and answered with Ok(EmailStatus { message_id: "", status: "" })
legacy_status_result(resp, body) ==
    IF resp.status \in 200..299
    THEN IF parse_EmailStatus(body).ok
         THEN OkStatus(parse_EmailStatus(body).val.status)
         ELSE Panicked
    ELSE OkStatus("")

\* send_email.rs send_email, once the response is there: a 2xx answers
\* Ok(x-ms-request-id header, or "" without it) and the body is not read;
\* any other status an Err made of the body
legacy_send_result(resp, header, body) ==
    IF resp.status \in 200..299
    THEN IF header.present THEN OkId(header.value) ELSE OkId("")
    ELSE IF body.json
         THEN RemoteError(body.error, resp.seq)
         ELSE to_error_response("error decoding response body", resp.seq)

\* the earlier entry points are called with a host that parses and, for
\* email.rs, with a message id the remote API handed out
InitEarlier ==
    /\ Init
    /\ Url_parse(send_url(host)).ok
    /\ auth_method.kind = "SharedKey"

\* get_email_status of email.rs: send_request (get_request_header may fail),
\* then the result
EmailGetEmailStatus ==
    /\ op = "none"
    /\ op' = "email::get_email_status"
    /\ \E o \in send_request(auth_method,
                             Request("GET", status_url(host, chars("abc123")),
                                     chars("abc123"), None),
                             1, 0, StatusResponses) :
          IF o.ok
          THEN \E body \in StatusBodies :
                  /\ events' = events \o o.evs \o <<[ev |-> "body", body |-> body]>>
                  /\ response' = o.response
                  /\ result' = email_status_result(o.response, body)
                  /\ pc' = "done"
          ELSE /\ events' = events \o o.evs
               /\ result' = to_error_response(o.error, 0)
               /\ pc' = "done"
               /\ UNCHANGED response
    /\ UNCHANGED <<host, calls, call, ret, auth_method, retries, poller>>

\* the request of email_status.rs and send_email.rs: a panic while signing,
\* a transport error, or a response
legacy_request(key) ==
    IF compute_signature_panics(key)
    THEN { [evs |-> <<>>, ok |-> FALSE, panic |-> TRUE, response |-> NoResponse] }
    ELSE { [evs |-> <<[ev |-> "request", n |-> 1], [ev |-> "transport_error"]>>,
            ok |-> FALSE, panic |-> FALSE, response |-> NoResponse] }
         \cup
         { [evs |-> <<[ev |-> "request", n |-> 1],
                      [ev |-> "response", status |-> r.status,
                       retry_after |-> r.retry_after]>>,
            ok |-> TRUE, panic |-> FALSE, response |-> Held(r, 1)] : r \in StatusResponses }

\* get_email_status of email_status.rs
LegacyGetEmailStatus ==
    /\ op = "none"
    /\ op' = "email_status::get_email_status"
    /\ \E o \in legacy_request(auth_method.key) :
          IF o.ok
          THEN \E body \in StatusBodies :
                  /\ events' = events \o o.evs \o <<[ev |-> "body", body |-> body]>>
                  /\ response' = o.response
                  /\ result' = legacy_status_result(o.response, body)
                  /\ pc' = IF legacy_status_result(o.response, body) = Panicked
                           THEN "panicked" ELSE "done"
          ELSE /\ events' = events \o o.evs
               /\ result' = IF o.panic THEN Panicked
                            ELSE to_error_response("Request failed", 0)
               /\ pc' = IF o.panic THEN "panicked" ELSE "done"
               /\ UNCHANGED response
    /\ UNCHANGED <<host, calls, call, ret, auth_method, retries, poller>>

\* send_email of send_email.rs; the body event is the body the answer
\* carried, which the 2xx branch leaves unread
LegacySendEmail ==
    /\ op = "none"
    /\ op' = "send_email::send_email"
    /\ \E o \in legacy_request(auth_method.key) :
          IF o.ok
          THEN \E header \in RequestIdHeaders, body \in Bodies :
                  /\ events' = events \o o.evs
                                  \o <<[ev |-> "header", header |-> header],
                                       [ev |-> "body", body |-> body]>>
                  /\ response' = o.response
                  /\ result' = legacy_send_result(o.response, header, body)
                  /\ pc' = "done"
          ELSE /\ events' = events \o o.evs
               /\ result' = IF o.panic THEN Panicked
                            ELSE to_error_response("Request failed", 0)
               /\ pc' = IF o.panic THEN "panicked" ELSE "done"
               /\ UNCHANGED response
    /\ UNCHANGED <<host, calls, call, ret, auth_method, retries, poller>>

NextEarlier == EmailGetEmailStatus \/ LegacyGetEmailStatus \/ LegacySendEmail

SpecEarlier == InitEarlier /\ [][NextEarlier]_vars

----------------------------------------------------------------------------
(* utils.rs: parse_endpoint, and the parse_endpoint of main.rs *)

endpoint_prefix == <<"e", "n", "d", "p", "o", "i", "n", "t", "=">>
accesskey_prefix == <<"a", "c", "c", "e", "s", "s", "k", "e", "y", "=">>

EndPointParams(host_name, access_key) ==
    [ok |-> TRUE, host_name |-> host_name, access_key |-> access_key, error |-> None]

EndPointError(message) ==
    [ok |-> FALSE, host_name |-> <<>>, access_key |-> <<>>, error |-> message]

\* a loop that takes a field without either prefix for an access key
RECURSIVE parse_parameters_lenient(_, _, _)
parse_parameters_lenient(parameters, i, params) ==
    IF i > Len(parameters) THEN params
    ELSE IF strip_prefix(parameters[i], endpoint_prefix).ok
    THEN LET parsed_url == Url_parse(strip_prefix(parameters[i], endpoint_prefix).val)
         IN IF ~parsed_url.ok THEN EndPointError("Invalid endpoint URL")
            ELSE parse_parameters_lenient(parameters, i + 1,
                                  [params EXCEPT !.host_name = parsed_url.host])
    ELSE parse_parameters_lenient(parameters, i + 1,
            [params EXCEPT !.access_key = parameters[i]])

\* `for param in parameters` of parse_endpoint from the i-th field on,
\* end_point_params being params: a field with the prefix "endpoint=" sets
\* the host of its URL, one with "accesskey=" sets the key, any other field
\* ends the loop with an Err
RECURSIVE parse_parameters(_, _, _)
parse_parameters(parameters, i, params) ==
    IF i > Len(parameters) THEN params
    ELSE IF strip_prefix(parameters[i], endpoint_prefix).ok
    THEN LET parsed_url == Url_parse(strip_prefix(parameters[i], endpoint_prefix).val)
         IN IF ~parsed_url.ok THEN EndPointError("Invalid endpoint URL")
            ELSE parse_parameters(parameters, i + 1,
                                  [params EXCEPT !.host_name = parsed_url.host])
    ELSE IF strip_prefix(parameters[i], accesskey_prefix).ok
    THEN parse_parameters(parameters, i + 1,
            [params EXCEPT !.access_key = strip_prefix(parameters[i], accesskey_prefix).val])
    ELSE EndPointError("Invalid parameter in connection string")

\* parse_endpoint of utils.rs
parse_endpoint(endpoint) ==
    LET parameters == split(endpoint, ";")
    IN IF Len(parameters) # 2
       THEN EndPointError("Connection string must contain exactly two parameters")
       ELSE parse_parameters(parameters, 1, EndPointParams(<<>>, <<>>))

EndPointPanic == EndPointError("panic")

\* parse_endpoint of main.rs: the first field must be the endpoint and the
\* second the access key; Url::parse(host).unwrap() panics on a bad URL
main_parse_endpoint(endpoint) ==
    LET parameters == split(endpoint, ";")
    IN IF Len(parameters) # 2 THEN EndPointError("Connection String Invalid")
       ELSE IF ~StartsWith(parameters[1], endpoint_prefix)
       THEN EndPointError("Endpoint invalid")
       ELSE IF ~Url_parse(strip_prefix(parameters[1], endpoint_prefix).val).ok
       THEN EndPointPanic
       ELSE IF ~StartsWith(parameters[2], accesskey_prefix)
       THEN EndPointError("Access Key invalid")
       ELSE EndPointParams(
                Url_parse(strip_prefix(parameters[1], endpoint_prefix).val).host,
                strip_prefix(parameters[2], accesskey_prefix).val)

\* ACSClientBuilder::build with a connection string set: the client gets the
\* parsed host and the parsed key as its shared key
build_with_connection_string(connection_string) ==
    LET parsed_res == parse_endpoint(connection_string)
    IN IF ~parsed_res.ok
       THEN [ok |-> FALSE, host |-> <<>>, auth_method |-> None,
             error |-> "Failed to parse connection string"]
       ELSE [ok |-> TRUE, host |-> parsed_res.host_name,
             auth_method |-> [kind |-> "SharedKey", key |-> parsed_res.access_key],
             error |-> None]

----------------------------------------------------------------------------
(* parse_endpoint and the builder, invoked on connection strings *)

\* fields a connection string is followed through (one more than the two
\* parse_endpoint accepts)
MaxFields == 3

\* URLs with a host: userinfo, upper-case letters, port, path and query may
\* be there or not; `host` is the host the URL names
Urls ==
    { [text |-> HttpsScheme \o t[1] \o t[2] \o t[3] \o t[4] \o t[5],
       host |-> lowercase(t[2])] :
        t \in { <<>>, <<"u", "@">> }
              \X { <<"h", ".", "i", "o">>, <<"H", ".", "i", "o">> }
              \X { <<>>, <<":", "1", "0">> }
              \X { <<>>, <<"/", "p">>, <<"/", "p", ";", "q">> }
              \X { <<>>, <<"?", "v", "=", "1">> } }

\* access keys as a connection string may carry them
AccessKeyTexts == AccessKeys \cup { <<>>, <<"a", ";", "b">> }

ConnectionString(url, key) ==
    endpoint_prefix \o url \o <<";">> \o accesskey_prefix \o key

\* fields of a connection string: well-formed ones, an empty one, a prefix in
\* the wrong case, an endpoint that is no URL, a field without prefix
Fields ==
    { endpoint_prefix \o <<"h", "t", "t", "p", "s", ":", "/", "/", "h", ".", "i", "o">>,
      endpoint_prefix \o <<"h", "t", "t", "p", "s", ":", "/", "/", "H", ".", "i", "o", ":", "1", "0", "/", "p">>,
      accesskey_prefix \o <<"a", "Q", "=", "=">>,
      accesskey_prefix,
      <<>>,
      <<"E", "n", "d", "p", "o", "i", "n", "t", "=", "h", "t", "t", "p", "s", ":", "/", "/", "h", ".", "i", "o">>,
      endpoint_prefix \o <<"h", ".", "i", "o">>,
      <<"k">> }

RECURSIVE JoinFields(_)
JoinFields(fields) ==
    IF Len(fields) = 1 THEN fields[1]
    ELSE fields[1] \o <<";">> \o JoinFields(Tail(fields))

RECURSIVE FieldLists(_)
FieldLists(n) ==
    IF n = 0 THEN {}
    ELSE [1..n -> Fields] \cup FieldLists(n - 1)

ConnectionStrings ==
    { ConnectionString(uk[1].text, uk[2]) : uk \in Urls \X AccessKeyTexts }
        \cup { JoinFields(fields) : fields \in FieldLists(MaxFields) }

InitEndpoint == Init

\* parse_endpoint of utils.rs on a connection string
ParseEndpoint ==
    /\ call = NoCall
    /\ \E endpoint \in ConnectionStrings :
          /\ call' = [fn |-> "parse_endpoint", endpoint |-> endpoint]
          /\ ret' = parse_endpoint(endpoint)
    /\ UNCHANGED <<host, calls, auth_method, op, pc, retries, response, events, result, poller>>

\* parse_endpoint of main.rs on a connection string
MainParseEndpoint ==
    /\ call = NoCall
    /\ \E endpoint \in ConnectionStrings :
          /\ call' = [fn |-> "main::parse_endpoint", endpoint |-> endpoint]
          /\ ret' = main_parse_endpoint(endpoint)
    /\ UNCHANGED <<host, calls, auth_method, op, pc, retries, response, events, result, poller>>

\* ACSClientBuilder::new().connection_string(..).build()
Build ==
    /\ call = NoCall
    /\ \E connection_string \in ConnectionStrings :
          /\ call' = [fn |-> "build", endpoint |-> connection_string]
          /\ ret' = build_with_connection_string(connection_string)
    /\ UNCHANGED <<host, calls, auth_method, op, pc, retries, response, events, result, poller>>

NextEndpoint == ParseEndpoint \/ MainParseEndpoint \/ Build

SpecEndpoint == InitEndpoint /\ [][NextEndpoint]_vars

----------------------------------------------------------------------------
(* utils.rs: get_request_header *)

\* last reading of the clock, in half seconds
MaxClock == 3

\* what SystemTime::now() returns when it is read a first and a second time
ClockReadings == { c \in (0..MaxClock) \X (0..MaxClock) : c[1] <= c[2] }

\* httpdate::fmt_http_date: the time to the second
fmt_http_date(now) == <<"http-date", now \div 2>>

\* compute_content_sha256: the base64 text of the SHA-256 of the content
compute_content_sha256(content) == <<"base64", <<"sha256", content>>>>

\* compute_signature: Err when the secret is no base64, else the base64 text
\* of the HMAC-SHA256 of string_to_sign under the decoded secret
compute_signature(string_to_sign, secret) ==
    IF ~base64_decodes(secret) THEN Err
    ELSE Ok([hmac_sha256 |-> string_to_sign, key |-> secret])

\* a builder that reads the clock again for the string it signs
request_dates_reading_twice(clock) == [header |-> fmt_http_date(clock[1]),
                                       signed |-> fmt_http_date(clock[2])]

\* let now = SystemTime::now(); let http_date = fmt_http_date(now): the date
\* put into the headers and the date put into the string that is signed
request_dates(clock) == [header |-> fmt_http_date(clock[1]),
                         signed |-> fmt_http_date(clock[1])]

\* url_endpoint.host_str(): the host, never the port
host_str(url_endpoint) == url_endpoint.host

\* path_and_query of get_request_header
path_and_query(url_endpoint) ==
    IF url_endpoint.query.present
    THEN url_endpoint.path \o <<"?">> \o url_endpoint.query.value
    ELSE url_endpoint.path

\* format!("{}\n{}\n{};{};{}", ...)
string_to_sign(http_method, path, http_date, host_authority, content_hash) ==
    <<http_method, "\n", path, "\n", http_date, ";", host_authority, ";", content_hash>>

NoHeaders == [ok |-> FALSE, error |-> "Failed to decode secret"]

\* request_id.parse().unwrap() on a text no header can carry
HeadersPanic == [ok |-> FALSE, error |-> "panic"]

\* get_request_header: a panic when the request id is no header value, else
\* the headers of a shared-key request (Authorization is
\* "HMAC-SHA256 SignedHeaders=..&Signature=.."), or the Err of compute_signature
get_request_header(url_endpoint, http_method, request_id, json_payload, access_key, clock) ==
    LET content_hash == compute_content_sha256(json_payload)
        dates == request_dates(clock)
        signature ==
            compute_signature(
                string_to_sign(http_method, path_and_query(url_endpoint), dates.signed,
                               host_str(url_endpoint), content_hash),
                access_key)
    IN IF ~HeaderValue_from_str(request_id).ok THEN HeadersPanic
       ELSE IF ~signature.ok THEN NoHeaders
       ELSE [ok |-> TRUE,
             error |-> None,
             content_type |-> "application/json",
             repeatability_request_id |-> request_id,
             repeatability_first_sent |-> dates.header,
             x_ms_date |-> dates.header,
             x_ms_content_sha256 |-> content_hash,
             authorization |->
                 [scheme |-> "HMAC-SHA256",
                  signed_headers |-> <<"x-ms-date", "host", "x-ms-content-sha256">>,
                  signature |-> signature.val]]

HttpMethods == {"POST", "GET"}

\* request ids: a UUID, and a message id with a line break in it
RequestIds == { Uuid_new_v4(1), chars("abc\n") }
JsonPayloads == {"", "{\"content\":{}}"}

InitHeaders == Init

\* get_request_header on a parsed URL, a method, a body and an access key,
\* the clock giving `clock` when read
GetRequestHeader ==
    /\ call = NoCall
    /\ \E u \in Urls, http_method \in HttpMethods, json_payload \in JsonPayloads,
          access_key \in AccessKeys, clock \in ClockReadings, request_id \in RequestIds :
          /\ call' = [fn |-> "get_request_header", url_endpoint |-> Url_parse(u.text),
                      http_method |-> http_method, request_id |-> request_id,
                      json_payload |-> json_payload, access_key |-> access_key,
                      clock |-> clock]
          /\ ret' = get_request_header(Url_parse(u.text), http_method, request_id,
                                       json_payload, access_key, clock)
    /\ UNCHANGED <<host, calls, auth_method, op, pc, retries, response, events, result, poller>>

NextHeaders == GetRequestHeader

SpecHeaders == InitHeaders /\ [][NextHeaders]_vars

----------------------------------------------------------------------------
(* The builders: SentEmailBuilder and ACSClientBuilder *)

\* builder calls one ACSClientBuilder is followed through
MaxBuilderCalls == 3

\* Option<Vec<..>>, Option<String> and Option<bool>
NoList == [some |-> FALSE, val |-> <<>>]
SomeList(v) == [some |-> TRUE, val |-> v]
NoText == [some |-> FALSE, val |-> <<>>]
SomeText(t) == [some |-> TRUE, val |-> t]
NoBool == [some |-> FALSE, val |-> FALSE]
SomeBool(b) == [some |-> TRUE, val |-> b]

\* Recipients: to, cc and b_cc are each an Option<Vec<EmailAddress>>
RecipientsValues ==
    [to : {NoList, SomeList(<<>>), SomeList(<<"to@h.io">>)},
     cc : {NoList, SomeList(<<"cc@h.io">>)},
     b_cc : {NoList}]

NoRecipients == [some |-> FALSE, val |-> [to |-> NoList, cc |-> NoList, b_cc |-> NoList]]
SomeRecipients(r) == [some |-> TRUE, val |-> r]

\* SentEmailBuilder::new()
SentEmailBuilder_new ==
    [fn |-> "SentEmailBuilder",
     headers |-> NoList,
     sender |-> None,
     content |-> None,
     recipients |-> NoRecipients,
     attachments |-> NoList,
     reply_to |-> NoList,
     user_engagement_tracking_disabled |-> NoBool]

NoSentEmail ==
    [headers |-> NoList, sender |-> None, content |-> None,
     recipients |-> NoRecipients.val, attachments |-> NoList, reply_to |-> NoList,
     user_engagement_tracking_disabled |-> NoBool]

SentEmailError(message) == [ok |-> FALSE, error |-> message, email |-> NoSentEmail]

\* SentEmailBuilder::build: sender, content and recipients are taken with
\* ok_or(..)?, in this order; the other fields are copied
SentEmailBuilder_build(self) ==
    IF self.sender = None THEN SentEmailError("Sender is required")
    ELSE IF self.content = None THEN SentEmailError("Content is required")
    ELSE IF ~self.recipients.some THEN SentEmailError("Recipients are required")
    ELSE [ok |-> TRUE, error |-> None,
          email |-> [headers |-> self.headers,
                     sender |-> self.sender,
                     content |-> self.content,
                     recipients |-> self.recipients.val,
                     attachments |-> self.attachments,
                     reply_to |-> self.reply_to,
                     user_engagement_tracking_disabled |->
                         self.user_engagement_tracking_disabled]]

SentEmailBuilderNew ==
    /\ call = NoCall
    /\ call' = SentEmailBuilder_new
    /\ UNCHANGED <<host, calls, auth_method, op, pc, retries, response, events, result, poller, ret>>

SetHeaders ==
    /\ call.fn = "SentEmailBuilder"
    /\ call' = [call EXCEPT !.headers = SomeList(<<"x-h">>)]
    /\ UNCHANGED <<host, calls, auth_method, op, pc, retries, response, events, result, poller, ret>>

SetSender ==
    /\ call.fn = "SentEmailBuilder"
    /\ call' = [call EXCEPT !.sender = "from@h.io"]
    /\ UNCHANGED <<host, calls, auth_method, op, pc, retries, response, events, result, poller, ret>>

SetContent ==
    /\ call.fn = "SentEmailBuilder"
    /\ call' = [call EXCEPT !.content = "content"]
    /\ UNCHANGED <<host, calls, auth_method, op, pc, retries, response, events, result, poller, ret>>

SetRecipients ==
    /\ call.fn = "SentEmailBuilder"
    /\ \E recipients \in RecipientsValues :
          call' = [call EXCEPT !.recipients = SomeRecipients(recipients)]
    /\ UNCHANGED <<host, calls, auth_method, op, pc, retries, response, events, result, poller, ret>>

SetAttachments ==
    /\ call.fn = "SentEmailBuilder"
    /\ call' = [call EXCEPT !.attachments = SomeList(<<"a.txt">>)]
    /\ UNCHANGED <<host, calls, auth_method, op, pc, retries, response, events, result, poller, ret>>

SetReplyTo ==
    /\ call.fn = "SentEmailBuilder"
    /\ call' = [call EXCEPT !.reply_to = SomeList(<<"re@h.io">>)]
    /\ UNCHANGED <<host, calls, auth_method, op, pc, retries, response, events, result, poller, ret>>

SetUserEngagementTrackingDisabled ==
    /\ call.fn = "SentEmailBuilder"
    /\ \E disabled \in BOOLEAN :
          call' = [call EXCEPT !.user_engagement_tracking_disabled = SomeBool(disabled)]
    /\ UNCHANGED <<host, calls, auth_method, op, pc, retries, response, events, result, poller, ret>>

SentEmailBuilderBuild ==
    /\ call.fn = "SentEmailBuilder"
    /\ call' = [fn |-> "SentEmailBuilder::build", self |-> call]
    /\ ret' = SentEmailBuilder_build(call)
    /\ UNCHANGED <<host, calls, auth_method, op, pc, retries, response, events, result, poller>>

\* Option<ACSAuthMethod>
NoAuthMethod == [some |-> FALSE, val |-> [kind |-> "None", key |-> <<>>]]
SomeAuthMethod(a) == [some |-> TRUE, val |-> a]

\* ACSClientBuilder::new()
ACSClientBuilder_new ==
    [fn |-> "ACSClientBuilder",
     host |-> NoText,
     connection_string |-> NoText,
     auth_method |-> NoAuthMethod]

ACSClientError(message) ==
    [ok |-> FALSE, host |-> <<>>, auth_method |-> None, error |-> message]

\* a build that falls back on host and credential when the connection string
\* does not parse
ACSClientBuilder_build_falling_back(self) ==
    IF self.connection_string.some
          /\ (parse_endpoint(self.connection_string.val).ok
                 \/ ~self.host.some \/ ~self.auth_method.some)
    THEN build_with_connection_string(self.connection_string.val)
    ELSE IF ~self.host.some THEN ACSClientError("Host is required")
    ELSE IF ~self.auth_method.some THEN ACSClientError("Authentication method is required")
    ELSE [ok |-> TRUE, host |-> self.host.val, auth_method |-> self.auth_method.val,
          error |-> None]

\* ACSClientBuilder::build: a connection string, when set, is parsed and
\* decides alone; without one, host and auth_method are both needed
ACSClientBuilder_build(self) ==
    IF self.connection_string.some
    THEN build_with_connection_string(self.connection_string.val)
    ELSE IF ~self.host.some THEN ACSClientError("Host is required")
    ELSE IF ~self.auth_method.some THEN ACSClientError("Authentication method is required")
    ELSE [ok |-> TRUE, host |-> self.host.val, auth_method |-> self.auth_method.val,
          error |-> None]

\* connection strings given to the builder: one that parses, one whose
\* endpoint is no URL, one with a single field
BuilderConnectionStrings ==
    { ConnectionString(HttpsScheme \o <<"c", ".", "i", "o">>, <<"a", "Q", "=", "=">>),
      ConnectionString(<<"c", ".", "i", "o">>, <<"a", "Q", "=", "=">>),
      accesskey_prefix \o <<"a", "Q", "=", "=">> }

ACSClientBuilderNew ==
    /\ call = NoCall
    /\ call' = ACSClientBuilder_new
    /\ UNCHANGED <<host, calls, auth_method, op, pc, retries, response, events, result, poller, ret>>

\* the builder methods log their call: events is the order the caller made them in
SetHost ==
    /\ call.fn = "ACSClientBuilder"
    /\ Len(events) < MaxBuilderCalls
    /\ \E h \in Hosts :
          /\ call' = [call EXCEPT !.host = SomeText(h)]
          /\ events' = Append(events, [ev |-> "host", host |-> h])
    /\ UNCHANGED <<host, calls, auth_method, op, pc, retries, response, result, poller, ret>>

SetConnectionString ==
    /\ call.fn = "ACSClientBuilder"
    /\ Len(events) < MaxBuilderCalls
    /\ \E connection_string \in BuilderConnectionStrings :
          /\ call' = [call EXCEPT !.connection_string = SomeText(connection_string)]
          /\ events' = Append(events, [ev |-> "connection_string",
                                       connection_string |-> connection_string])
    /\ UNCHANGED <<host, calls, auth_method, op, pc, retries, response, result, poller, ret>>

SetServicePrincipal ==
    /\ call.fn = "ACSClientBuilder"
    /\ Len(events) < MaxBuilderCalls
    /\ call' = [call EXCEPT !.auth_method =
                   SomeAuthMethod([kind |-> "ServicePrincipal", key |-> <<>>])]
    /\ events' = Append(events, [ev |-> "service_principal"])
    /\ UNCHANGED <<host, calls, auth_method, op, pc, retries, response, result, poller, ret>>

SetManagedIdentity ==
    /\ call.fn = "ACSClientBuilder"
    /\ Len(events) < MaxBuilderCalls
    /\ call' = [call EXCEPT !.auth_method =
                   SomeAuthMethod([kind |-> "ManagedIdentity", key |-> <<>>])]
    /\ events' = Append(events, [ev |-> "managed_identity"])
    /\ UNCHANGED <<host, calls, auth_method, op, pc, retries, response, result, poller, ret>>

ACSClientBuilderBuild ==
    /\ call.fn = "ACSClientBuilder"
    /\ call' = [fn |-> "ACSClientBuilder::build", self |-> call]
    /\ ret' = ACSClientBuilder_build(call)
    /\ UNCHANGED <<host, calls, auth_method, op, pc, retries, response, events, result, poller>>

InitBuilders == Init

NextBuilders ==
    \/ SentEmailBuilderNew \/ SetHeaders \/ SetSender \/ SetContent \/ SetRecipients
    \/ SetAttachments \/ SetReplyTo \/ SetUserEngagementTrackingDisabled
    \/ SentEmailBuilderBuild
    \/ ACSClientBuilderNew \/ SetHost \/ SetConnectionString \/ SetServicePrincipal
    \/ SetManagedIdentity \/ ACSClientBuilderBuild

SpecBuilders == InitBuilders /\ [][NextBuilders]_vars

----------------------------------------------------------------------------
(* Several calls on one client at the same time *)

\* calls in progress on one client
MaxCalls == 2

Callers == 1..MaxCalls

\* what the remote API answers while several calls are followed
ConcurrentResponses == [status : {ACCEPTED, TOO_MANY_REQUESTS}, retry_after : {Absent}]
ConcurrentBodies ==
    { NotJson, [json |-> TRUE, id |-> "abc123", status |-> "Running", error |-> None] }
ConcurrentStatusResponses == [status : {OK, 400}, retry_after : {Absent}]
ConcurrentStatusBodies ==
    { NotJson, [json |-> TRUE, id |-> "abc123", status |-> "Succeeded", error |-> None] }

\* a call that was not made yet: its entry point, its position, the locals
\* of acs_send_email (request id, email, retries, response), what it did and
\* what it returned
IdleCall ==
    [op |-> "none", pc |-> "idle", request_id |-> <<>>, email |-> None, retries |-> 0,
     response |-> NoResponse, events |-> <<>>, result |-> NoResult]

CallSelect(c, kind) == SelectSeq(calls[c].events, LAMBDA e : e.ev = kind)
CallRequests(c) == Len(CallSelect(c, "request"))
CallTokens(c) == Len(CallSelect(c, "token"))

InitConcurrent ==
    /\ host \in Hosts
    /\ auth_method \in AuthMethods
    /\ calls = [c \in Callers |-> IdleCall]
    /\ op = "none"
    /\ pc = "idle"
    /\ retries = 0
    /\ response = NoResponse
    /\ events = <<>>
    /\ result = NoResult
    /\ poller = NoPoller
    /\ call = NoCall
    /\ ret = NoReturn

\* a caller invokes send_email
CallSendEmail ==
    /\ \E c \in Callers, email \in Emails :
          /\ calls[c].op = "none"
          /\ calls' = [calls EXCEPT ![c] =
                          [@ EXCEPT !.op = "send_email",
                                    !.pc = "send_request",
                                    !.request_id = Uuid_new_v4(c),
                                    !.email = email]]
    /\ UNCHANGED <<host, auth_method, op, pc, retries, response, events, result, poller, call, ret>>

\* send_request(...).await? of one of the calls
CallSendRequest ==
    /\ \E c \in Callers :
          /\ calls[c].op = "send_email"
          /\ calls[c].pc = "send_request"
          /\ \E o \in send_request(auth_method,
                                   SendEmailRequest(host, calls[c].request_id, calls[c].email),
                                   CallRequests(c) + 1, CallTokens(c), ConcurrentResponses) :
                calls' = [calls EXCEPT ![c] =
                    IF o.ok
                    THEN [@ EXCEPT !.events = @ \o o.evs,
                                   !.response = o.response,
                                   !.pc = "handle_response"]
                    ELSE [@ EXCEPT !.events = @ \o o.evs,
                                   !.result = request_error(o.error),
                                   !.pc = ended(request_error(o.error))]]
    /\ UNCHANGED <<host, auth_method, op, pc, retries, response, events, result, poller, call, ret>>

\* a client that keeps the response it handles in a place its calls share
CallHandleResponse_shared ==
    /\ \E c \in Callers, d \in Callers, body \in ConcurrentBodies :
          /\ calls[c].op = "send_email"
          /\ calls[c].pc = "handle_response"
          /\ calls[d].response # NoResponse
          /\ LET step == handle_response_and_retry_if_needed(calls[d].response,
                                                             calls[c].retries, body)
             IN calls' = [calls EXCEPT ![c] =
                    IF step.retry
                    THEN [@ EXCEPT !.events = Append(@, [ev |-> "sleep", secs |-> step.secs]),
                                   !.retries = @ + 1,
                                   !.pc = "send_request"]
                    ELSE [@ EXCEPT !.events = Append(@, [ev |-> "body", body |-> body]),
                                   !.result = step.result,
                                   !.pc = "done"]]
    /\ UNCHANGED <<host, auth_method, op, pc, retries, response, events, result, poller, call, ret>>

\* one pass of the loop of handle_response_and_retry_if_needed in one of the
\* calls, on the response that call holds
CallHandleResponse ==
    /\ \E c \in Callers, body \in ConcurrentBodies :
          /\ calls[c].op = "send_email"
          /\ calls[c].pc = "handle_response"
          /\ LET step == handle_response_and_retry_if_needed(calls[c].response,
                                                             calls[c].retries, body)
             IN calls' = [calls EXCEPT ![c] =
                    IF step.retry
                    THEN [@ EXCEPT !.events = Append(@, [ev |-> "sleep", secs |-> step.secs]),
                                   !.retries = @ + 1,
                                   !.pc = "send_request"]
                    ELSE [@ EXCEPT !.events = Append(@, [ev |-> "body", body |-> body]),
                                   !.result = step.result,
                                   !.pc = "done"]]
    /\ UNCHANGED <<host, auth_method, op, pc, retries, response, events, result, poller, call, ret>>

\* a caller invokes get_email_status: the message id is the request id
CallGetEmailStatus ==
    /\ \E c \in Callers, message_id \in MessageIds :
          /\ calls[c].op = "none"
          /\ calls' = [calls EXCEPT ![c] =
                          [@ EXCEPT !.op = "get_email_status",
                                    !.pc = "status_request",
                                    !.request_id = chars(message_id),
                                    !.email = message_id]]
    /\ UNCHANGED <<host, auth_method, op, pc, retries, response, events, result, poller, call, ret>>

\* acs_get_email_status of one of the calls
CallStatusRequest ==
    /\ \E c \in Callers :
          /\ calls[c].op = "get_email_status"
          /\ calls[c].pc = "status_request"
          /\ \E o \in get_email_status_outcomes(host, auth_method, calls[c].email,
                                                CallRequests(c) + 1, CallTokens(c),
                                                ConcurrentStatusResponses,
                                                ConcurrentStatusBodies) :
                calls' = [calls EXCEPT ![c] =
                             [@ EXCEPT !.events = @ \o o.evs,
                                       !.response = o.response,
                                       !.result = o.result,
                                       !.pc = ended(o.result)]]
    /\ UNCHANGED <<host, auth_method, op, pc, retries, response, events, result, poller, call, ret>>

NextConcurrent ==
    \/ CallSendEmail \/ CallSendRequest \/ CallHandleResponse
    \/ CallGetEmailStatus \/ CallStatusRequest

SpecConcurrent == InitConcurrent /\ [][NextConcurrent]_vars

----------------------------------------------------------------------------
(* Properties of send_email *)

Responses == Select("response")

Sending == op = "send_email"

Done == pc = "done"

IsThrottled(e) == e.status \in {TOO_MANY_REQUESTS, SERVICE_UNAVAILABLE}

\* the Retry-After header of a response event reads as seconds
HasSeconds(e) == e.retry_after.present /\ retry_after_secs(e).ok

\* the call ended by returning what it made of a response
EndedOnResponse == Done /\ events # <<>> /\ events[Len(events)].ev = "body"

LastBody == events[Len(events)].body

\* index in events of the k-th response
RECURSIVE IndexOfResponse(_, _)
IndexOfResponse(k, i) ==
    IF i > Len(events) THEN 0
    ELSE IF events[i].ev = "response"
         THEN IF k = 1 THEN i ELSE IndexOfResponse(k - 1, i + 1)
         ELSE IndexOfResponse(k, i + 1)

\* every request but the first follows a sleep that follows a 429 or 503
RetriesOnlyWhenThrottled ==
    \A i \in 1..Len(events) :
        (events[i].ev = "request" /\ events[i].n > 1) =>
            /\ events[i].n <= Received + 1
            /\ IsThrottled(Responses[events[i].n - 1])

\* C1 as stated: at most 3 retries and 4 requests, retries only on 429/503,
\* and whenever every response was 429 the call ends after exactly 3 retries
\* with a failure built from the last response
C1_Original ==
    Sending =>
        /\ retries <= max_retries
        /\ Requests <= max_retries + 1
        /\ RetriesOnlyWhenThrottled
        /\ (Done /\ Received >= 1
                /\ \A k \in 1..Received : Responses[k].status = TOO_MANY_REQUESTS)
            => /\ retries = max_retries
               /\ ~result.ok
               /\ result.from = Received

\* C1: one send_email call retries only after a 429 or 503, makes at most 3
\* retries and 4 requests, and when every attempt is answered 429 with a
\* Retry-After header that is absent or reads as seconds, it makes exactly 3
\* retries and returns a failure built from the fourth, last response
C1_RetryBound ==
    Sending =>
        /\ retries <= max_retries
        /\ Requests <= max_retries + 1
        /\ Requests <= retries + 1
        /\ Len(Waits) = retries
        /\ RetriesOnlyWhenThrottled
        /\ (EndedOnResponse
                /\ \A k \in 1..Received :
                      /\ Responses[k].status = TOO_MANY_REQUESTS
                      /\ (Responses[k].retry_after.present => HasSeconds(Responses[k])))
            => /\ retries = max_retries
               /\ Requests = max_retries + 1
               /\ Received = max_retries + 1
               /\ ~result.ok
               /\ result.from = Received

C1_Witness ==
    /\ Sending /\ EndedOnResponse
    /\ retries = max_retries
    /\ \A k \in 1..Received : Responses[k].status = TOO_MANY_REQUESTS
    /\ ~result.ok /\ result.from = 4 /\ Received = 4

\* every response so far was a 429 without Retry-After header
Always429NoHeader ==
    /\ Received >= 1
    /\ \A k \in 1..Received :
          Responses[k].status = TOO_MANY_REQUESTS /\ ~Responses[k].retry_after.present

\* C2 as stated: with 429 and no Retry-After on every attempt the waits
\* before the three retries are 2, 4 and 8 seconds
C2_Original ==
    (Sending /\ Always429NoHeader /\ Len(Waits) = max_retries) => Waits = <<2, 4, 8>>

\* C2: with 429 and no Retry-After on every attempt, the wait before retry
\* number i is 2^(i-1) seconds: 1, 2 and 4 seconds before the three retries
C2_Backoff ==
    (Sending /\ Always429NoHeader) =>
        /\ \A i \in 1..Len(Waits) : Waits[i] = 2 ^ (i - 1)
        /\ Len(Waits) = max_retries => Waits = <<1, 2, 4>>
        /\ EndedOnResponse => Len(Waits) = max_retries

C2_Witness ==
    Sending /\ Always429NoHeader /\ Done /\ Waits = <<1, 2, 4>>

\* event i starts an attempt: the token acquisition or the request itself
IsAttempt(i) == events[i].ev \in {"token", "request"}

\* C3: a 429 or 503 with a Retry-After header that reads as n seconds, received
\* while retries remain, is followed by a sleep of exactly n seconds and then
\* the next attempt, whatever the attempt number, and every such retry is
\* counted in `retries`, which never passes the bound
C3_RetryAfterHonoured ==
    Sending =>
        /\ Len(Waits) = retries /\ retries <= max_retries
        /\ \A k \in 1..Received :
              LET i == IndexOfResponse(k, 1)
              IN (IsThrottled(events[i]) /\ HasSeconds(events[i]) /\ k <= max_retries) =>
                    /\ i = Len(events) => pc = "handle_response"
                    /\ i < Len(events) =>
                          /\ events[i + 1].ev = "sleep"
                          /\ events[i + 1].secs = retry_after_secs(events[i]).val
                          /\ Len(SelectSeq(SubSeq(events, 1, i + 1),
                                           LAMBDA e : e.ev = "sleep")) = k
                    /\ i + 1 = Len(events) => pc = "send_request" /\ retries = k
                    /\ i + 1 < Len(events) => IsAttempt(i + 2)

C3_Witness ==
    /\ Sending /\ Received = 4
    /\ Responses[1].retry_after = Header(<<"3">>)
    /\ Responses[2].retry_after = Header(<<"1", "0">>)
    /\ Responses[3].retry_after = Header(<<"+", "1">>)
    /\ Responses[3].status = SERVICE_UNAVAILABLE \/ Responses[3].status = TOO_MANY_REQUESTS
    /\ Waits = <<3, 10, 1>>

\* nothing follows event i but the reading of the response's body, and the
\* call has returned an error built from that response
EndsWithErrorAt(i, k) ==
    /\ i = Len(events) => pc = "handle_response"
    /\ i < Len(events) =>
          /\ i + 1 = Len(events)
          /\ events[i + 1].ev = "body"
          /\ Done
          /\ ~result.ok
          /\ result.from = k

\* C4: a 429 or 503 whose Retry-After header is present but does not read as
\* seconds ends the call with an error: no sleep and no request follow it,
\* also when retries remain
C4_MalformedRetryAfter ==
    Sending =>
        \A k \in 1..Received :
            LET i == IndexOfResponse(k, 1)
            IN (IsThrottled(events[i]) /\ events[i].retry_after.present
                    /\ ~HasSeconds(events[i]))
                => EndsWithErrorAt(i, k)

C4_Witness ==
    /\ Sending /\ Done /\ Received = 2 /\ retries = 1
    /\ Responses[2].status = TOO_MANY_REQUESTS
    /\ Responses[2].retry_after = Header(<<"-", "1">>)
    /\ ~result.ok /\ Waits = <<1>>

\* C5: a response whose status is none of 202, 429, 503 ends the call with an
\* error, be it the first response or the response to a retry
C5_OtherStatus ==
    Sending =>
        \A k \in 1..Received :
            LET i == IndexOfResponse(k, 1)
            IN events[i].status \notin {ACCEPTED, TOO_MANY_REQUESTS, SERVICE_UNAVAILABLE}
                => EndsWithErrorAt(i, k)

C5_Witness ==
    /\ Sending /\ Done /\ Received = 3
    /\ Responses[3].status = 500
    /\ ~result.ok /\ result.from = 3

TransportFailed == \E i \in 1..Len(events) : events[i].ev = "transport_error"

\* C6 as stated: a transport failure is retried under the bounded policy, so
\* it reaches the caller only once the retries are used up
C6_Original ==
    (Sending /\ Done /\ TransportFailed) => retries_exhausted(retries)

\* C6: a transport failure of a send attempt, first or retried, is not
\* retried: the call returns the "Request failed" error at once, and no
\* sleep and no request follow the failure
C6_TransportNotRetried ==
    Sending =>
        \A i \in 1..Len(events) :
            events[i].ev = "transport_error" =>
                /\ i = Len(events)
                /\ Done
                /\ result = to_error_response("Request failed", 0)
                /\ Requests = retries + 1

C6_Witness ==
    /\ Sending /\ Done /\ TransportFailed
    /\ retries = 1 /\ Requests = 2
    /\ result.error = "Request failed"

\* C8: a 202 whose body has an id and no status, as first response or after
\* retries, makes send_email return Ok with that id, whether or not the body
\* has an error field
C8_AcceptedWithoutStatus ==
    (Sending /\ EndedOnResponse /\ response.status = ACCEPTED
        /\ LastBody.json /\ LastBody.id # None /\ LastBody.status = None)
    => result = OkId(LastBody.id)

C8_Witness ==
    /\ Sending /\ EndedOnResponse /\ response.status = ACCEPTED
    /\ retries = 2
    /\ LastBody = [json |-> TRUE, id |-> "abc123", status |-> None, error |-> None]
    /\ result = OkId("abc123")

----------------------------------------------------------------------------
(* Properties of get_email_status *)

IsStatusCall ==
    op \in {"get_email_status", "email::get_email_status", "email_status::get_email_status"}

IsSuccess(status) == status \in 200..299

\* C7: a get_email_status call makes one request and no more, whatever the
\* response (429 and 503 included); it returns an error whenever the status
\* of the response is not 2xx, and a status only for a success that carries
\* a status field
C7_StatusCall ==
    (IsStatusCall /\ Done) =>
        /\ Requests <= 1
        /\ Received = 1 => Requests = 1 /\ events[Len(events)].ev = "body"
        /\ (Received = 1 /\ ~IsSuccess(response.status)) => ~result.ok
        /\ result.ok =>
              /\ Received = 1
              /\ IsSuccess(response.status)
              /\ LastBody.json /\ LastBody.status # None
              /\ result.val = LastBody.status

\* the gateway's get_email_status on a 503
C7_Gateway503 ==
    /\ op = "get_email_status" /\ Done
    /\ response.status = SERVICE_UNAVAILABLE
    /\ Requests = 1 /\ ~result.ok

----------------------------------------------------------------------------
(* Properties of the 202 answer without id *)

IsSendCall == op \in {"send_email", "send_email::send_email"}

\* C9: a send answered 202 with a body that has no id returns the
\* missing-id error, never Ok, and is not retried
C9_AcceptedWithoutId ==
    (IsSendCall /\ EndedOnResponse /\ response.status = ACCEPTED
        /\ parse_SentEmailResponse(LastBody).ok /\ LastBody.id = None)
    => /\ ~result.ok
       /\ result.error = "Missing ID in response"
       /\ Requests = response.seq

\* the gateway's send_email on a 202 without id, after one retry
C9_GatewayMissingId ==
    /\ op = "send_email" /\ EndedOnResponse /\ response.status = ACCEPTED
    /\ retries = 1 /\ LastBody.json /\ LastBody.id = None
    /\ result = create_missing_id_error(2)

----------------------------------------------------------------------------
(* Properties of the poller *)

IsCallback == op = "send_email_with_callback"

\* what the status queries returned, in order
StatusResults ==
    [q \in 1..Len(Select("status_result")) |-> Select("status_result")[q].result]

\* the call_back invocations, in order
Updates == Select("update")

\* tx.send(()) calls
Signals == Len(Select("signal"))

RECURSIVE IndexOfKind(_, _, _)
IndexOfKind(kind, k, i) ==
    IF i > Len(events) THEN 0
    ELSE IF events[i].ev = kind
         THEN IF k = 1 THEN i ELSE IndexOfKind(kind, k - 1, i + 1)
         ELSE IndexOfKind(kind, k, i + 1)

TerminalStatuses == {"Succeeded", "Failed", "Canceled", "Unknown"}
NonTerminalStatuses == {"NotStarted", "Running"}

AllQueriesSucceeded == \A q \in 1..Len(StatusResults) : StatusResults[q].ok

\* C10: while every status query succeeds, the poller calls onUpdate once per
\* query, right after the query and before the next one, with the message id,
\* the status the query returned and no error detail; every query but the
\* last returned NotStarted or Running, after such a status the poller is
\* still in its loop and has not signalled, and after a status among
\* Succeeded, Failed, Canceled, Unknown it has stopped. Running, Running,
\* Succeeded gives exactly three onUpdate calls.
C10_PollerUpdates ==
    (IsCallback /\ AllQueriesSucceeded) =>
        /\ Len(Updates) = Len(StatusResults)
        /\ \A q \in 1..Len(StatusResults) :
              /\ Updates[q].status = StatusResults[q].val
              /\ ~Updates[q].error.present
              /\ Updates[q].message_id = result.val
              /\ events[IndexOfKind("status_result", q, 1) + 1] = Updates[q]
              /\ q < Len(StatusResults) => StatusResults[q].val \in NonTerminalStatuses
        /\ \A i \in 1..Len(events) :
              events[i].ev = "update" => events[i - 1].ev = "status_result"
        /\ Len(StatusResults) >= 1 =>
              LET last == StatusResults[Len(StatusResults)].val
              IN /\ last \in NonTerminalStatuses =>
                       poller.pc \in {"sleep", "query"} /\ Signals = 0
                 /\ last \in TerminalStatuses => poller.pc = "stopped"
                 /\ last \in NonTerminalStatuses \cup TerminalStatuses
        /\ (Len(StatusResults) = 3 /\ StatusResults[1].val = "Running"
                /\ StatusResults[2].val = "Running" /\ StatusResults[3].val = "Succeeded")
            => Len(Updates) = 3 /\ poller.pc = "stopped"

C10_Witness ==
    /\ IsCallback /\ AllQueriesSucceeded
    /\ Len(StatusResults) = 3
    /\ StatusResults[1].val = "Running"
    /\ StatusResults[2].val = "Running"
    /\ StatusResults[3].val = "Succeeded"
    /\ Len(Updates) = 3
    /\ Updates[3].status = "Succeeded"
    /\ poller.pc = "stopped"

----------------------------------------------------------------------------
(* Properties of the poller: failures, completion signal, order, caller *)

\* events a status query makes before it returns
QueryKinds == {"token", "request", "transport_error", "response", "body"}

\* the events from position i on are passes of the poller in the order of
\* its loop, `sleeps` sleeps and `queries` returned queries having come before:
\* a sleep of one interval only when every query so far has returned and had
\* its onUpdate, what a query does only after a sleep of its own, onUpdate
\* right after the query returned, the signal right after an onUpdate
RECURSIVE PassesInOrder(_, _, _)
PassesInOrder(i, sleeps, queries) ==
    IF i > Len(events) THEN TRUE
    ELSE CASE events[i].ev = "poll_sleep" ->
                 /\ events[i].secs = poll_interval_secs
                 /\ sleeps = queries
                 /\ events[i - 1].ev \in {"body", "update"}
                 /\ PassesInOrder(i + 1, sleeps + 1, queries)
           [] events[i].ev \in QueryKinds ->
                 /\ sleeps = queries + 1
                 /\ PassesInOrder(i + 1, sleeps, queries)
           [] events[i].ev = "status_result" ->
                 /\ sleeps = queries + 1
                 /\ PassesInOrder(i + 1, sleeps, queries + 1)
           [] events[i].ev = "update" ->
                 /\ sleeps = queries
                 /\ events[i - 1].ev = "status_result"
                 /\ PassesInOrder(i + 1, sleeps, queries)
           [] events[i].ev = "signal" ->
                 /\ events[i - 1].ev = "update"
                 /\ PassesInOrder(i + 1, sleeps, queries)
           [] OTHER -> FALSE

\* errors a status query can end with
QueryErrors ==
    {"Request failed", "Failed to acquire access token", "ErrorResponse",
     "Failed to parse response", "Missing status in response"}

\* C11: when a status query of the poller returns an Err (transport error,
\* non-200 answer, unparseable body, missing status), on the first poll or a
\* later one, the poller calls onUpdate once for that query with the message
\* id, status Failed and an error detail made of that Err, then sends the
\* completion signal, stops and makes no further query
C11_PollerFailure ==
    IsCallback =>
        \A q \in 1..Len(StatusResults) :
            ~StatusResults[q].ok =>
                LET r == IndexOfKind("status_result", q, 1)
                IN /\ poller.pc = "stopped"
                   /\ q = Len(StatusResults)
                   /\ Len(Updates) = q
                   /\ Signals = 1
                   /\ StatusResults[q].error \in QueryErrors
                   /\ Len(events) >= r + 2
                   /\ events[r + 1] =
                        [ev |-> "update", message_id |-> result.val, status |-> "Failed",
                         error |-> ErrorDetail(StatusResults[q])]
                   /\ events[r + 2].ev = "signal"

C11_Witness ==
    /\ IsCallback
    /\ Len(StatusResults) = 2
    /\ StatusResults[1] = OkStatus("Running")
    /\ StatusResults[2] = create_missing_status_error(Requests)
    /\ Updates[2].status = "Failed"
    /\ Updates[2].error = ErrorDetail(create_missing_status_error(Requests))
    /\ Signals = 1
    /\ poller.pc = "stopped"

\* C12: a poller sends its completion signal at most once; the signal comes
\* right after the last onUpdate call, and once it is sent the poller has
\* stopped: no query, no onUpdate and no sleep follows it
C12_SignalOnce ==
    /\ Signals <= 1
    /\ poller.pc = "stopped" <=> Signals = 1
    /\ Signals = 1 =>
          LET s == IndexOfKind("signal", 1, 1)
          IN /\ s > 1
             /\ events[s - 1].ev = "update"
             /\ IndexOfKind("update", Len(Updates), 1) = s - 1
             /\ s = Len(events)
             /\ ~ENABLED PollSleep /\ ~ENABLED PollQuery

C12_Witness ==
    /\ IsCallback
    /\ Signals = 1
    /\ Polls = 2
    /\ poller.rx = "received"
    /\ events[Len(events)] = [ev |-> "signal", delivered |-> TRUE]
    /\ events[Len(events) - 1].ev = "update"

\* C13: every pass of the poller sleeps one interval, then queries, then
\* calls onUpdate: the first sleep starts once the send has succeeded, the
\* first query comes after it, and between two queries lies the onUpdate of
\* the first and one sleep of a full interval
C13_PollerOrder ==
    (IsCallback /\ poller.pc # "none") =>
        LET sent == IndexOfKind("body", 1, 1)
        IN /\ result.ok /\ sent > 0
           /\ PassesInOrder(sent + 1, 0, 0)
           /\ poller.pc = "query" <=> Len(Select("poll_sleep")) = Polls + 1

C13_Witness ==
    /\ IsCallback
    /\ Polls = 3
    /\ Len(Select("poll_sleep")) = 3
    /\ Len(Updates) = 3
    /\ IndexOfKind("poll_sleep", 3, 1) > IndexOfKind("update", 2, 1)
    /\ IndexOfKind("poll_sleep", 3, 1) < IndexOfKind("request", Requests, 1)

\* C14: once the send succeeded and the poller is spawned, the call can
\* return the message id and the receiver whatever the poller has done or not
\* done; the poller can take its next step whether the receiver is still with
\* the call, held, awaited, dropped or served; the caller waits only when it
\* awaits the receiver
C14_CallerDecoupled ==
    IsCallback =>
        /\ pc = "spawned" =>
              /\ ENABLED ReturnReceiver
              /\ result.ok /\ poller.message_id = result.val /\ poller.rx = "local"
        /\ (pc = "done" /\ result.ok) =>
              /\ poller.rx \in {"held", "awaiting", "dropped", "received"}
              /\ result.val = poller.message_id
        /\ (poller.pc = "sleep" /\ Polls < MaxPolls) => ENABLED PollSleep
        /\ poller.pc = "query" => ENABLED PollQuery
        /\ poller.rx = "received" => poller.pc = "stopped"

C14_Witness ==
    /\ IsCallback /\ pc = "done"
    /\ poller.rx = "dropped"
    /\ poller.pc = "query"
    /\ Polls = 2
    /\ ENABLED PollQuery

----------------------------------------------------------------------------
(* Properties of parse_endpoint *)

IsParseEndpoint == call.fn \in {"parse_endpoint", "main::parse_endpoint"}

HasSemicolon(s) == \E i \in 1..Len(s) : s[i] = ";"

\* the fields of the connection string of the call
CallFields == split(call.endpoint, ";")

HasNeitherPrefix(field) ==
    ~StartsWith(field, endpoint_prefix) /\ ~StartsWith(field, accesskey_prefix)

\* C15 as stated: for every URL and every access key, parse_endpoint of
\* "endpoint=" + url + ";accesskey=" + key gives the host of the URL and the key
C15_Original ==
    IsParseEndpoint =>
        \A u \in Urls, k \in AccessKeyTexts :
            call.endpoint = ConnectionString(u.text, k) =>
                ret = EndPointParams(u.host, k)

\* C15: for every URL with a host and every access key, neither of which
\* contains ";", parse_endpoint of "endpoint=" + url + ";accesskey=" + key
\* succeeds with the host of the URL (no scheme, userinfo, port, path or
\* query) and the key unchanged
C15_RoundTrip ==
    IsParseEndpoint =>
        \A u \in Urls, k \in AccessKeyTexts :
            (call.endpoint = ConnectionString(u.text, k)
                /\ ~HasSemicolon(u.text) /\ ~HasSemicolon(k))
            => ret = EndPointParams(u.host, k)

C15_Witness ==
    /\ call.fn = "parse_endpoint"
    /\ call.endpoint = ConnectionString(<<"h", "t", "t", "p", "s", ":", "/", "/", "u", "@", "H", ".", "i", "o", ":", "1", "0", "/", "p", "?", "v", "=", "1">>, <<"a", "Q", "=", "=">>)
    /\ ret = EndPointParams(<<"h", ".", "i", "o">>, <<"a", "Q", "=", "=">>)

\* C16: parse_endpoint of utils.rs returns an Err, and neither a host nor a
\* key, for every input that does not split into exactly two fields at ";"
\* and for every input with a field that starts with neither "endpoint=" nor
\* "accesskey="
C16_Rejected ==
    (call.fn = "parse_endpoint"
        /\ (Len(CallFields) # 2
              \/ \E i \in 1..Len(CallFields) : HasNeitherPrefix(CallFields[i])))
    => /\ ~ret.ok
       /\ ret.host_name = <<>> /\ ret.access_key = <<>>

C16_Witness ==
    /\ call.fn = "parse_endpoint"
    /\ Len(CallFields) = 2
    /\ StartsWith(CallFields[1], endpoint_prefix)
    /\ Url_parse(strip_prefix(CallFields[1], endpoint_prefix).val).ok
    /\ CallFields[2] = <<"k">>
    /\ ret = EndPointError("Invalid parameter in connection string")

\* C17: parse_endpoint of utils.rs, and the builder that calls it, succeed
\* only when the input has a field "endpoint=" and a field "accesskey=", and
\* then the host and the key of the result are those of such fields
C17_BothFields ==
    (call.fn \in {"parse_endpoint", "build"} /\ ret.ok) =>
        /\ \E i \in 1..Len(CallFields) :
              /\ StartsWith(CallFields[i], endpoint_prefix)
              /\ Url_parse(strip_prefix(CallFields[i], endpoint_prefix).val).host
                   = IF call.fn = "build" THEN ret.host ELSE ret.host_name
        /\ \E j \in 1..Len(CallFields) :
              /\ StartsWith(CallFields[j], accesskey_prefix)
              /\ strip_prefix(CallFields[j], accesskey_prefix).val
                   = IF call.fn = "build" THEN ret.auth_method.key ELSE ret.access_key

\* parse_endpoint of two fields "accesskey=": Ok with an empty host
C17_TwoAccessKeys ==
    /\ call.fn = "parse_endpoint"
    /\ call.endpoint = accesskey_prefix \o <<"a", "Q", "=", "=">> \o <<";">> \o accesskey_prefix
    /\ ret = EndPointParams(<<>>, <<>>)

----------------------------------------------------------------------------
(* Properties of get_request_header *)

BuiltHeaders == call.fn = "get_request_header" /\ ret.ok

\* the string the signature of the Authorization header was computed over
SignedString == ret.authorization.signature.hmac_sha256

\* C18: the headers of a shared-key request carry one reading of the clock:
\* x-ms-date, repeatability-first-sent and the date inside the string that is
\* signed are the same timestamp, the one of the first reading, and
\* x-ms-content-sha256 is the content hash inside the signed string, the hash
\* of the body
C18_ClockReadOnce ==
    BuiltHeaders =>
        /\ ret.x_ms_date = ret.repeatability_first_sent
        /\ ret.x_ms_date = SignedString[5]
        /\ ret.x_ms_date = fmt_http_date(call.clock[1])
        /\ ret.x_ms_content_sha256 = SignedString[9]
        /\ ret.x_ms_content_sha256 = compute_content_sha256(call.json_payload)

C18_Witness ==
    /\ BuiltHeaders
    /\ call.clock = <<1, 3>>
    /\ call.json_payload # ""
    /\ ret.x_ms_date = <<"http-date", 0>>
    /\ SignedString[5] = <<"http-date", 0>>

\* C19: the string that is signed is METHOD, newline, PATH?QUERY, newline,
\* DATE;HOST;CONTENT_HASH in that order, HOST being the host name without
\* scheme and with the port when the authority of the URL has one, and the
\* Authorization header lists x-ms-date;host;x-ms-content-sha256
C19_StringToSign ==
    BuiltHeaders =>
        LET url == call.url_endpoint
            HOST == IF url.port = <<>> THEN url.host ELSE url.host \o <<":">> \o url.port
            PATH_QUERY == IF url.query.present
                          THEN url.path \o <<"?">> \o url.query.value ELSE url.path
        IN /\ SignedString =
                <<call.http_method, "\n", PATH_QUERY, "\n", ret.x_ms_date, ";", HOST, ";",
                  ret.x_ms_content_sha256>>
           /\ ret.authorization.signed_headers = <<"x-ms-date", "host", "x-ms-content-sha256">>

\* a URL with a port: the string that is signed has the host without it
C19_PortLeftOut ==
    /\ BuiltHeaders
    /\ call.url_endpoint.port = <<"1", "0">>
    /\ SignedString[7] = <<"h", ".", "i", "o">>
    /\ SignedString[3] = <<"/", "p", "?", "v", "=", "1">>

----------------------------------------------------------------------------
(* Properties of a shared key that is no base64 *)

InvalidSharedKey == auth_method.kind = "SharedKey" /\ ~base64_decodes(auth_method.key)

IsSendOrStatusCall ==
    op \in {"send_email", "get_email_status", "email::get_email_status",
            "email_status::get_email_status", "send_email::send_email"}

\* C20: with a shared key that is no base64, a send_email or get_email_status
\* call sends no request, does not wait, does not retry and does not abort:
\* it returns, and what it returns is the header-creation error, the same
\* every time
C20_InvalidSecret ==
    (InvalidSharedKey /\ IsSendOrStatusCall) =>
        /\ Requests = 0 /\ Received = 0
        /\ Waits = <<>>
        /\ retries = 0
        /\ pc \in {"send_request", "status_request", "done"}
        /\ pc = "done" => result = to_error_response("Header creation failed", 0)

\* the gateway's send_email and get_email_status with such a key
C20_GatewayHeaderError ==
    /\ InvalidSharedKey
    /\ op \in {"send_email", "get_email_status"}
    /\ pc = "done"
    /\ events = <<>>
    /\ result = to_error_response("Header creation failed", 0)

----------------------------------------------------------------------------
(* Properties of token acquisition *)

TokenError == to_error_response("Failed to acquire access token", 0)

\* the acquisition at position i of the log failed
IsFailedToken(i) == events[i].ev = "token" /\ ~events[i].ok

\* C21: with a service principal or a managed identity, a token acquisition
\* that fails ends the operation with the error "Failed to acquire access
\* token" and no request goes out for it, on the first attempt and on a retry
\* alike: in a send or a status call the failed acquisition is the last thing
\* the call did, in the poller it is followed by the error the query returned.
\* With a shared key no token is ever acquired.
C21_TokenFailure ==
    /\ auth_method.kind = "SharedKey" => Tokens = 0
    /\ \A i \in 1..Len(events) :
          IsFailedToken(i) =>
             IF poller.pc = "none"
             THEN /\ i = Len(events)
                  /\ pc = "done"
                  /\ result = TokenError
             ELSE /\ i < Len(events)
                  /\ events[i + 1] = [ev |-> "status_result", result |-> TokenError]

\* a send whose retry could not get a token, after one request went out
C21_Witness ==
    /\ op = "send_email"
    /\ auth_method.kind = "ServicePrincipal"
    /\ retries = 1
    /\ Requests = 1
    /\ Tokens = 2
    /\ IsFailedToken(Len(events))
    /\ result = TokenError

\* the acquisitions that gave a token
OkTokens == SelectSeq(events, LAMBDA e : e.ev = "token" /\ e.ok)

\* C22: with a service principal or a managed identity every request that
\* goes out (first send, retry, status poll) bears a token acquired for it just
\* before: in a call that did not panic there are as many successful
\* acquisitions as requests, the k-th acquisition of the call is a new one,
\* and no request bears the token of another.
C22_FreshToken ==
    (auth_method.kind # "SharedKey" /\ pc # "panicked") =>
        /\ Len(OkTokens) = Requests
        /\ \A k \in 1..Tokens : Select("token")[k].n = k
        /\ \A i \in 1..Len(events) :
              events[i].ev = "request" =>
                 /\ i > 1
                 /\ events[i - 1].ev = "token"
                 /\ events[i - 1].ok
                 /\ events[i].bearer = <<"token", events[i - 1].n>>

\* a send, its retry and a status poll, each with its own token
C22_Witness ==
    /\ auth_method.kind = "ManagedIdentity"
    /\ op = "send_email_with_callback"
    /\ retries = 1
    /\ Polls = 1
    /\ Requests = 3
    /\ Tokens = 3
    /\ Select("request")[3].bearer = <<"token", 3>>

----------------------------------------------------------------------------
(* Properties of the texts a call is given *)

\* a send or a status call of the gateway
IsGatewayCall == op \in {"send_email", "get_email_status"}

\* C24: a send_email or get_email_status call of the gateway never panics,
\* whatever message id and host it is given: every failure is returned.
C24_NeverPanics ==
    IsGatewayCall => (pc # "panicked" /\ result # Panicked)

\* a status call whose URL and headers were built: the host parses and the
\* message id is a header value
C24_StatusCallReturns ==
    /\ op = "get_email_status"
    /\ HeaderValue_from_str(chars(call.message_id)).ok
    /\ pc = "done"
    /\ Requests = 1

----------------------------------------------------------------------------
(* Properties of what a send returns *)

\* a send_email call that returned, of the gateway or of src/src/acs_email.rs
SendReturned == op \in {"send_email", "acs_email::send_email"} /\ pc = "done"

\* C27: send_email returns Ok(id) only when the last response it received has
\* status 202 and the body of that response is JSON carrying that id; every
\* other way a send ends, a 200 or another 2xx among them, returns an error
\* and no id.
C27_OkOnlyOnAccepted ==
    SendReturned =>
        IF result.ok
        THEN /\ EndedOnResponse
             /\ response.seq = Requests
             /\ response.status = ACCEPTED
             /\ LastBody.json
             /\ LastBody.id = result.val
             /\ result.val \in MessageIds
        ELSE /\ result.val = None
             /\ (EndedOnResponse /\ response.status # ACCEPTED) => result.error # None

\* a 200 whose body carries an id, taken for an error
C27_Witness ==
    /\ SendReturned
    /\ op = "send_email"
    /\ response.status = OK
    /\ EndedOnResponse
    /\ LastBody.id \in MessageIds
    /\ ~result.ok
    /\ result.val = None

----------------------------------------------------------------------------
(* Properties of a send_email_with_callback whose send fails *)

PollerKinds == {"poll_sleep", "status_result", "update", "signal"}

\* C28: when the send of send_email_with_callback fails, the call returns the
\* error of the send and no poller is started: no status query is made, the
\* callback is not invoked and nothing is sent on the channel. A poller
\* exists only for the id the send returned.
C28_FailedSendNoPoller ==
    /\ (IsCallback /\ pc \in {"done", "spawned"} /\ ~result.ok) =>
          /\ pc = "done"
          /\ poller = NoPoller
          /\ \A i \in 1..Len(events) : events[i].ev \notin PollerKinds
          /\ ~ENABLED PollSleep
          /\ ~ENABLED PollQuery
    /\ poller.pc # "none" =>
          /\ IsCallback
          /\ result.ok
          /\ poller.message_id = result.val

\* a send that gave up after the last retry was throttled too
C28_Witness ==
    /\ IsCallback
    /\ pc = "done"
    /\ ~result.ok
    /\ retries = max_retries
    /\ response.status = TOO_MANY_REQUESTS
    /\ poller = NoPoller

----------------------------------------------------------------------------
(* Properties of SentEmailBuilder *)

BuiltSentEmail == call.fn = "SentEmailBuilder::build"

\* C23: SentEmailBuilder::build returns a SentEmail only when a sender, a
\* content and a `to` list of recipients were set on the builder, and an error
\* when one of them is missing.
C23_BuildRequiresTo ==
    BuiltSentEmail =>
        (ret.ok <=> /\ call.self.sender # None
                    /\ call.self.content # None
                    /\ call.self.recipients.some
                    /\ call.self.recipients.val.to.some)

\* a SentEmail built with sender, content and a `to` list
C23_BuiltWithTo ==
    /\ BuiltSentEmail
    /\ ret.ok
    /\ ret.email.recipients.to = SomeList(<<"to@h.io">>)

----------------------------------------------------------------------------
(* Properties of ACSClientBuilder *)

BuiltClient == call.fn = "ACSClientBuilder::build"

\* position in the log of the last builder call among kinds, 0 without one
RECURSIVE LastCall(_, _)
LastCall(kinds, i) ==
    IF i < 1 THEN 0
    ELSE IF events[i].ev \in kinds THEN i ELSE LastCall(kinds, i - 1)

LastConnectionString == LastCall({"connection_string"}, Len(events))
LastHost == LastCall({"host"}, Len(events))
LastAuth == LastCall({"service_principal", "managed_identity"}, Len(events))

AuthKindOf(ev) ==
    IF ev = "service_principal" THEN "ServicePrincipal" ELSE "ManagedIdentity"

\* C29: ACSClientBuilder::build, whatever the order of the builder calls. With
\* a connection string set, it decides alone: when it parses, the client has
\* the parsed host and the parsed key as shared key even if a host, a service
\* principal or a managed identity were set too; when it does not parse, build
\* fails and does not fall back on them. Without a connection string, build
\* succeeds exactly when a host and a credential were both set, and the
\* credential is the one of the last service_principal / managed_identity call.
C29_BuildDecision ==
    BuiltClient =>
        IF LastConnectionString # 0
        THEN LET parsed == parse_endpoint(events[LastConnectionString].connection_string)
             IN IF parsed.ok
                THEN /\ ret.ok
                     /\ ret.host = parsed.host_name
                     /\ ret.auth_method = [kind |-> "SharedKey", key |-> parsed.access_key]
                ELSE /\ ~ret.ok
                     /\ ret.error = "Failed to parse connection string"
        ELSE /\ ret.ok <=> (LastHost # 0 /\ LastAuth # 0)
             /\ ret.ok => /\ ret.host = events[LastHost].host
                          /\ ret.auth_method.kind = AuthKindOf(events[LastAuth].ev)
             /\ (LastHost = 0) => ret.error = "Host is required"
             /\ (LastHost # 0 /\ LastAuth = 0) => ret.error = "Authentication method is required"

\* a host and a managed identity set before a connection string that does not
\* parse: build fails
C29_Witness ==
    /\ BuiltClient
    /\ Len(events) = 3
    /\ events[1].ev = "host"
    /\ events[2].ev = "managed_identity"
    /\ events[3].ev = "connection_string"
    /\ ~parse_endpoint(events[3].connection_string).ok
    /\ ~ret.ok

----------------------------------------------------------------------------
(* Properties of calls made at the same time *)

\* the last response call c received, as it holds it
RECURSIVE LastResponseAt(_, _)
LastResponseAt(log, i) ==
    IF i < 1 THEN 0
    ELSE IF log[i].ev = "response" THEN i ELSE LastResponseAt(log, i - 1)

CallLastResponse(c) ==
    LET log == calls[c].events
        at == LastResponseAt(log, Len(log))
        answered == Len(SelectSeq(SubSeq(log, 1, at), LAMBDA e : e.ev = "request"))
    IN Held(log[at], answered)

\* what call c returns according to what it did itself: the failure before
\* any request, the failed token or transport, or the last response it
\* received and the body read from it
OwnResult(c) ==
    LET log == calls[c].events
    IN IF log = <<>>
       THEN IF ~parse_url(send_url(host)).ok THEN to_error_response("Invalid URL", 0)
            ELSE to_error_response("Header creation failed", 0)
       ELSE CASE log[Len(log)].ev = "token" -> TokenError
              [] log[Len(log)].ev = "transport_error" -> to_error_response("Request failed", 0)
              [] log[Len(log)].ev = "body" ->
                    IF calls[c].op = "send_email"
                    THEN handle_response_and_retry_if_needed(
                             CallLastResponse(c), Len(CallSelect(c, "sleep")),
                             log[Len(log)].body).result
                    ELSE status_result(CallLastResponse(c), log[Len(log)].body)
              [] OTHER -> NoResult

\* every call holds the last response it received itself, and a call that
\* returned returned what its own requests led to
CallsIsolated ==
    \A c \in Callers :
        /\ CallSelect(c, "response") # <<>> => calls[c].response = CallLastResponse(c)
        /\ calls[c].pc = "done" => calls[c].result = OwnResult(c)
        /\ calls[c].pc \in {"idle", "send_request", "status_request", "handle_response", "done"}

\* C25: with any number of send_email and get_email_status calls in progress
\* on one client, each call's result depends only on the responses to its own
\* requests, and no step changes the client's host or auth method.
C25_Isolation ==
    /\ []CallsIsolated
    /\ [][host' = host /\ auth_method' = auth_method]_vars

\* two sends at the same time: one returned the id of its 202 while the
\* other, on its first retry, holds a 429
C25_Witness ==
    /\ calls[1].op = "send_email" /\ calls[2].op = "send_email"
    /\ calls[1].pc = "done" /\ calls[1].result.ok
    /\ calls[2].pc = "handle_response"
    /\ calls[2].retries = 1
    /\ calls[2].response.status = TOO_MANY_REQUESTS

\* the requests of call c
CallRequestEvents(c) == CallSelect(c, "request")

SameRequest(e, f) ==
    /\ e.method = f.method
    /\ e.url = f.url
    /\ e.body = f.body
    /\ e.request_id = f.request_id

\* C26: the requests of one send_email call, first attempt and retries, all
\* have the same method, URL, body and request id; the requests of two
\* different send_email calls have different request ids.
C26_SameRequest ==
    \A c \in Callers :
        calls[c].op = "send_email" =>
            /\ \A i \in 1..CallRequests(c) :
                  /\ SameRequest(CallRequestEvents(c)[i], CallRequestEvents(c)[1])
                  /\ CallRequestEvents(c)[i].method = "POST"
                  /\ CallRequestEvents(c)[i].request_id = calls[c].request_id
            /\ \A d \in Callers \ {c} :
                  calls[d].op = "send_email" =>
                     \A i \in 1..CallRequests(c), j \in 1..CallRequests(d) :
                        CallRequestEvents(c)[i].request_id # CallRequestEvents(d)[j].request_id

\* a send with two retries next to another send with one
C26_Witness ==
    /\ calls[1].op = "send_email" /\ calls[2].op = "send_email"
    /\ CallRequests(1) = 3
    /\ CallRequests(2) = 2

----------------------------------------------------------------------------
(* Properties of the poller followed forever *)

\* the poller made a query and the last one returned a terminal status or
\* failed
LastQueryEnded ==
    /\ ret # NoReturn
    /\ ~ret.ok \/ ret.val \in TerminalStatuses

\* the poller made a query and the last one returned NotStarted or Running
LastQueryGoesOn ==
    /\ ret # NoReturn
    /\ ret.ok
    /\ ret.val \in NonTerminalStatuses

\* C30: with the spawned task scheduled fairly and every query returning, the
\* poller has stopped exactly when a status query returned a terminal status
\* or failed; until then every sleep is followed by a query and every query by
\* the next sleep, with no count of polls and no deadline ending the loop.
C30_PollsUntilTerminal ==
    /\ [](poller.pc = "stopped" <=> LastQueryEnded)
    /\ [](LastQueryGoesOn => poller.pc \in {"sleep", "query"})
    /\ (poller.pc = "sleep") ~> (poller.pc = "query")
    /\ (poller.pc = "query") ~> (poller.pc = "sleep" \/ poller.pc = "stopped")

\* the poller asleep again after a query returned Running
C30_Witness ==
    /\ IsCallback
    /\ poller.pc = "sleep"
    /\ ret = OkStatus("Running")

\* a poller always stops in the end
C30_AlwaysStops == (poller.pc = "sleep") ~> (poller.pc = "stopped")

====
